---- MODULE Spec2Model ----
(***************************************************************************)
(* A model of the MUD MCP server: the session/player registry              *)
(* (StateService), the tool provider (ToolsService), the prompt provider   *)
(* (PromptsService), the request dispatcher (McpServer.handleRequest) and  *)
(* the message loop of index.ts that feeds it from the transport.          *)
(***************************************************************************)
EXTENDS Integers, Sequences, FiniteSets, TLC

(***************************************************************************)
(* Bounds of the model.                                                    *)
(***************************************************************************)
MaxClock == 1
MaxRequests == 3

(***************************************************************************)
(* Identifiers.  Session ids, player ids and the special values undefined  *)
(* and 'all' are all JavaScript strings (or undefined); they are modelled  *)
(* as records [k, n] (a prefix and a number) so that any two of them can   *)
(* be compared.                                                            *)
(***************************************************************************)
SESSION_1234 == [k |-> "session", n |-> 1234]
DEFAULT_SID == [k |-> "default", n |-> 0]
OTHER_SID == [k |-> "other", n |-> 0]
ALL_PLAYERS == [k |-> "all", n |-> 0]
Undefined == [k |-> "undefined", n |-> 0]
PlayerId(t) == [k |-> "player", n |-> t]

\* the result of Array.prototype.find when nothing matches, among item and monster ids
NoKey == "<undefined>"

(***************************************************************************)
(* The configured world (config/world.ts).                                 *)
(***************************************************************************)
RoomIds == {"entrance", "hallway", "chamber", "treasure_room"}

Exits ==
  [entrance      |-> [north |-> "hallway"],
   hallway       |-> [south |-> "entrance", east |-> "chamber"],
   chamber       |-> [west |-> "hallway", north |-> "treasure_room"],
   treasure_room |-> [south |-> "chamber"]]

RoomHasQuest ==
  [entrance |-> FALSE, hallway |-> TRUE, chamber |-> FALSE, treasure_room |-> FALSE]

initialRooms ==
  [entrance      |-> [items |-> <<"torch">>,  monsters |-> <<>>],
   hallway       |-> [items |-> <<"key">>,    monsters |-> <<>>],
   chamber       |-> [items |-> <<"potion">>, monsters |-> <<"goblin">>],
   treasure_room |-> [items |-> <<"gold">>,   monsters |-> <<"dragon">>]]

\* items: item id -> display name, in key order
ItemKeys == <<"ancient_scroll", "golden_key", "magic_gem">>
ItemName ==
  [ancient_scroll |-> "Ancient Scroll", golden_key |-> "Golden Key", magic_gem |-> "Magic Gem"]

\* monsters: monster id -> display name, in key order
MonsterKeys == <<"goblin", "dragon">>
MonsterName == [goblin |-> "Cave Goblin", dragon |-> "Ancient Dragon"]

\* String.prototype.toLowerCase on the strings the model uses
toLowerCase(s) ==
  CASE s = "Cave Goblin"    -> "cave goblin"
    [] s = "Ancient Dragon" -> "ancient dragon"
    [] s = "Ancient Scroll" -> "ancient scroll"
    [] s = "Golden Key"     -> "golden key"
    [] s = "Magic Gem"      -> "magic gem"
    [] s = "North"          -> "north"
    [] s = "Torch"          -> "torch"
    [] OTHER                -> s

(***************************************************************************)
(* Small helpers for JavaScript containers.                                *)
(***************************************************************************)
\* Map.prototype.set
MapSet(m, k, v) == [x \in (DOMAIN m) \cup {k} |-> IF x = k THEN v ELSE m[x]]

\* Array.prototype.includes
Includes(arr, x) == \E i \in 1..Len(arr) : arr[i] = x

\* Array.prototype.filter(id => id !== x)
RECURSIVE FilterOut(_, _)
FilterOut(arr, x) ==
  IF arr = <<>> THEN <<>>
  ELSE IF Head(arr) = x THEN FilterOut(Tail(arr), x)
       ELSE <<Head(arr)>> \o FilterOut(Tail(arr), x)

\* Object.keys(table).find(id => table[id].name.toLowerCase() === name.toLowerCase())
\* (NoKey when no key matches)
RECURSIVE FindIdByName(_, _, _)
FindIdByName(keys, names, name) ==
  IF keys = <<>> THEN NoKey
  ELSE IF toLowerCase(names[Head(keys)]) = toLowerCase(name) THEN Head(keys)
       ELSE FindIdByName(Tail(keys), names, name)

(***************************************************************************)
(* The state of the program.                                               *)
(***************************************************************************)
VARIABLES
  clock,              \* Date.now()
  players,            \* StateService.players : playerId -> PlayerState
  sessions,           \* StateService.sessions : sessionId -> Session
  rooms,              \* StateService.world.rooms (items and monsters per room)
  transportSend,      \* McpServer.transportSend is set
  clientCapabilities, \* McpServer.clientCapabilities
  samplingHandler,    \* SamplingService.samplingHandler: "none", "stub", "transport"
  timers,             \* pending setTimeout callbacks (deferred TOOLS_CHANGED emits)
  reqs,               \* the requests received so far, by id
  sampling,           \* the sampling requests the transport sampling handler issued
  prompts,            \* PromptsService.prompts: the registered names, in insertion order
  adapter,            \* TransportAdapter: chunks to come, bytes read, messageBuffer, messages emitted
  out,                \* messages handed to the transport by the last step
  events,             \* change events emitted by the last step
  last,               \* what the last step did
  alive               \* the process has not exited

vars == <<clock, players, sessions, rooms, transportSend, clientCapabilities,
          samplingHandler, timers, reqs, sampling, prompts, adapter, out, events,
          last, alive>>

\* The part of the state the services read and write, as one value.
Store ==
  [clock |-> clock, players |-> players, sessions |-> sessions, rooms |-> rooms,
   transportSend |-> transportSend, clientCapabilities |-> clientCapabilities,
   samplingHandler |-> samplingHandler, timers |-> timers, prompts |-> prompts,
   out |-> <<>>, events |-> <<>>]

(***************************************************************************)
(* StateService: sessions and players.                                     *)
(***************************************************************************)
sessionIdOf(st) == SESSION_1234

playerIdOf(st) == PlayerId(st.clock)

\* a createSession that starts a player whose id is already stored in the hallway
createSessionReturning(st) ==
  LET sessionId == sessionIdOf(st)
      playerId == playerIdOf(st)
      playerState == [player_id |-> playerId,
                      room |-> IF playerId \in DOMAIN st.players THEN "hallway"
                               ELSE "entrance",
                      inventory |-> <<>>, hasQuest |-> FALSE, monsterPresent |-> FALSE]
      session == [id |-> sessionId, playerId |-> playerId, lastActive |-> st.clock]
  IN [st |-> [st EXCEPT !.players = MapSet(@, playerId, playerState),
                        !.sessions = MapSet(@, sessionId, session)],
      session |-> session]

\* a createSession that keeps no player but the one it makes
createSessionForgetting(st) ==
  LET sessionId == sessionIdOf(st)
      playerId == playerIdOf(st)
      playerState == [player_id |-> playerId, room |-> "entrance", inventory |-> <<>>,
                      hasQuest |-> FALSE, monsterPresent |-> FALSE]
      session == [id |-> sessionId, playerId |-> playerId, lastActive |-> st.clock]
  IN [st |-> [st EXCEPT !.players = MapSet([x \in {} |-> Undefined], playerId, playerState),
                        !.sessions = MapSet(@, sessionId, session)],
      session |-> session]

\* createSession(): returns the new store and the Session
createSession(st) ==
  LET sessionId == sessionIdOf(st)
      playerId == playerIdOf(st)
      playerState == [player_id |-> playerId, room |-> "entrance", inventory |-> <<>>,
                      hasQuest |-> FALSE, monsterPresent |-> FALSE]
      session == [id |-> sessionId, playerId |-> playerId, lastActive |-> st.clock]
  IN [st |-> [st EXCEPT !.players = MapSet(@, playerId, playerState),
                        !.sessions = MapSet(@, sessionId, session)],
      session |-> session]

\* getSession(sessionId): the Session, or Undefined
getSession(st, sessionId) ==
  IF sessionId \in DOMAIN st.sessions THEN st.sessions[sessionId] ELSE Undefined

\* getPlayerState(playerId): the PlayerState, or Undefined
getPlayerState(st, playerId) ==
  IF playerId \in DOMAIN st.players THEN st.players[playerId] ELSE Undefined

(***************************************************************************)
(* SamplingService.isAvailable                                             *)
(***************************************************************************)
isAvailable(st) == st.samplingHandler # "none"

(***************************************************************************)
(* ToolsService.getAvailableTools                                          *)
(***************************************************************************)
RegisteredTools == {"look", "move", "inventory", "take", "battle", "talk"}

BasicTools == <<"look", "inventory">>

\* a battle condition that reads the player's flag instead of the room
playerSeesMonster(st, playerState) == playerState.monsterPresent

\* the condition of the battle tool
roomHasBattle(st, playerState) == Len(st.rooms[playerState.room].monsters) > 0

getAvailableTools(st, playerId) ==
  IF playerId = Undefined THEN BasicTools
  ELSE IF getPlayerState(st, playerId) = Undefined THEN BasicTools
  ELSE LET playerState == getPlayerState(st, playerId) IN
    IF playerState.room \notin DOMAIN st.rooms THEN BasicTools
    ELSE LET room == st.rooms[playerState.room] IN
         <<"look", "inventory">>
      \o (IF Cardinality(DOMAIN Exits[playerState.room]) > 0 THEN <<"move">> ELSE <<>>)
      \o (IF Len(room.items) > 0 THEN <<"take">> ELSE <<>>)
      \o (IF roomHasBattle(st, playerState) THEN <<"battle">> ELSE <<>>)
      \o (IF isAvailable(st) THEN <<"talk">> ELSE <<>>)

(***************************************************************************)
(* PromptsService.getAvailablePrompts                                      *)
(***************************************************************************)
RegisteredPrompts ==
  <<"room_description", "welcome", "inventory_prompt", "quest_prompt", "battle_prompt">>

\* a filter that offers the quest of a room to a player who holds it already
promptVisibleToQuestHolder(st, playerState, name) ==
  LET room == st.rooms[playerState.room] IN
  CASE name = "quest_prompt"  -> RoomHasQuest[playerState.room]
    [] name = "battle_prompt" -> playerState.monsterPresent /\ Len(room.monsters) > 0
    [] OTHER                  -> TRUE

promptVisible(st, playerState, name) ==
  LET room == st.rooms[playerState.room] IN
  CASE name = "quest_prompt"  -> RoomHasQuest[playerState.room] /\ ~playerState.hasQuest
    [] name = "battle_prompt" -> playerState.monsterPresent /\ Len(room.monsters) > 0
    [] OTHER                  -> TRUE

getAvailablePrompts(st, playerId) ==
  IF playerId = Undefined \/ playerId = ALL_PLAYERS THEN <<>>
  ELSE IF getPlayerState(st, playerId) = Undefined THEN <<>>
  ELSE LET playerState == getPlayerState(st, playerId) IN
       SelectSeq(st.prompts, LAMBDA n : promptVisible(st, playerState, n))

(***************************************************************************)
(* McpServer: the change notifier.                                         *)
(***************************************************************************)
\* sendMessage(message): hands the message to the transport sender when one is
\* set; a failure of the send is caught and logged, so it has no effect
sendMessage(st, message) ==
  IF ~st.transportSend THEN st
  ELSE [st EXCEPT !.out = Append(@, message)]

toolsNotification(st, playerId) ==
  [jsonrpc |-> "2.0", method |-> "notifications/tools/list_changed",
   params |-> [tools |-> getAvailableTools(st, playerId)]]

promptsNotification(st, playerId) ==
  [jsonrpc |-> "2.0", method |-> "notifications/prompts/list_changed",
   params |-> [prompts |-> getAvailablePrompts(st, playerId)]]

notifyToolsChanged(st, playerId) ==
  IF ~st.transportSend THEN st
  ELSE sendMessage(st, toolsNotification(st, playerId))

notifyPromptsChanged(st, playerId) ==
  IF ~st.transportSend THEN st
  ELSE IF getPlayerState(st, playerId) = Undefined THEN st
  ELSE sendMessage(st, promptsNotification(st, playerId))

\* stateService.emit(event, { playerId }): the listeners registered by the
\* McpServer constructor run synchronously, up to the hand-over to the transport
emit(st, event, playerId) ==
  LET st1 == [st EXCEPT !.events = Append(@, [event |-> event, playerId |-> playerId])]
  IN IF event = "TOOLS_CHANGED" THEN notifyToolsChanged(st1, playerId)
     ELSE notifyPromptsChanged(st1, playerId)

\* publishInitialLists()
publishInitialLists(st) ==
  LET c == createSession(st)
      defaultPlayerId == c.session.playerId
  IN notifyPromptsChanged(notifyToolsChanged(c.st, defaultPlayerId), defaultPlayerId)

(***************************************************************************)
(* StateService: the mutators the tool handlers call.                      *)
(***************************************************************************)
\* a condition that looks at the monster flag only
monsterPresenceChanged(hadMonster, monsterPresent, targetRoom, oldRoom, roomId) ==
  hadMonster # monsterPresent

\* the condition under which updatePlayerRoom emits its two events
roomChangedSignificantly(hadMonster, monsterPresent, targetRoom, oldRoom, roomId) ==
  hadMonster # monsterPresent \/ Len(targetRoom.items) > 0 \/ oldRoom # roomId

\* an updatePlayerRoom that leaves the monsterPresent flag as it was
updatePlayerRoomKeepingFlag(st, playerId, roomId) ==
  IF getPlayerState(st, playerId) = Undefined THEN [st |-> st, ok |-> FALSE]
  ELSE IF roomId \notin DOMAIN st.rooms THEN [st |-> st, ok |-> FALSE]
  ELSE [st |-> emit(emit([st EXCEPT !.players[playerId].room = roomId],
                         "TOOLS_CHANGED", playerId), "PROMPTS_CHANGED", playerId),
        ok |-> TRUE]

\* updatePlayerRoom(playerId, roomId): the new store and the returned boolean
updatePlayerRoom(st, playerId, roomId) ==
  IF getPlayerState(st, playerId) = Undefined THEN [st |-> st, ok |-> FALSE]
  ELSE IF roomId \notin DOMAIN st.rooms THEN [st |-> st, ok |-> FALSE]
  ELSE
    LET playerState == getPlayerState(st, playerId)
        targetRoom == st.rooms[roomId]
        oldRoom == playerState.room
        hadMonster == playerState.monsterPresent
        monsterPresent == Len(targetRoom.monsters) > 0
        st1 == [st EXCEPT !.players[playerId].room = roomId,
                          !.players[playerId].monsterPresent = monsterPresent]
        st2 == IF roomChangedSignificantly(hadMonster, monsterPresent, targetRoom, oldRoom, roomId)
               THEN emit(emit(st1, "TOOLS_CHANGED", playerId), "PROMPTS_CHANGED", playerId)
               ELSE st1
    IN [st |-> st2, ok |-> TRUE]

\* addItemToInventory(playerId, itemId)
addItemToInventory(st, playerId, itemId) ==
  IF getPlayerState(st, playerId) = Undefined THEN [st |-> st, ok |-> FALSE]
  ELSE
    LET playerState == getPlayerState(st, playerId) IN
    IF playerState.room \notin DOMAIN st.rooms
       \/ ~Includes(st.rooms[playerState.room].items, itemId)
    THEN [st |-> st, ok |-> FALSE]
    ELSE
      LET st1 == [st EXCEPT !.players[playerId].inventory = Append(@, itemId),
                            !.rooms[playerState.room].items = FilterOut(@, itemId)]
          st2 == IF Len(st1.rooms[playerState.room].items) = 0
                 THEN [st1 EXCEPT !.timers = Append(@, playerId)]
                 ELSE st1
          st3 == IF itemId = "ancient_artifact" /\ playerState.hasQuest
                 THEN emit(st2, "PROMPTS_CHANGED", playerId)
                 ELSE st2
      IN [st |-> st3, ok |-> TRUE]

\* removeItemFromRoom(roomId, itemId)
removeItemFromRoom(st, roomId, itemId) ==
  IF roomId \notin DOMAIN st.rooms \/ ~Includes(st.rooms[roomId].items, itemId)
  THEN [st |-> st, ok |-> FALSE]
  ELSE [st |-> [st EXCEPT !.rooms[roomId].items = FilterOut(@, itemId)], ok |-> TRUE]

\* the condition under which movePlayer emits its two events
moveChangedSignificantly(hadMonster, monsterPresent, nextRoom) ==
  hadMonster # monsterPresent \/ Len(nextRoom.items) > 0

\* movePlayer(playerId, direction)
movePlayer(st, playerId, direction) ==
  IF getPlayerState(st, playerId) = Undefined THEN [st |-> st, ok |-> FALSE]
  ELSE
    LET playerState == getPlayerState(st, playerId) IN
    IF playerState.room \notin DOMAIN st.rooms THEN [st |-> st, ok |-> FALSE]
    ELSE IF direction \notin DOMAIN Exits[playerState.room] THEN [st |-> st, ok |-> FALSE]
    ELSE IF Exits[playerState.room][direction] \notin DOMAIN st.rooms
    THEN [st |-> st, ok |-> FALSE]
    ELSE
      LET nextRoomId == Exits[playerState.room][direction]
          nextRoom == st.rooms[nextRoomId]
          hadMonster == playerState.monsterPresent
          monsterPresent == Len(nextRoom.monsters) > 0
          st1 == [st EXCEPT !.players[playerId].room = nextRoomId,
                            !.players[playerId].monsterPresent = monsterPresent]
          st2 == IF moveChangedSignificantly(hadMonster, monsterPresent, nextRoom)
                 THEN emit(emit(st1, "TOOLS_CHANGED", playerId), "PROMPTS_CHANGED", playerId)
                 ELSE st1
      IN [st |-> st2, ok |-> TRUE]

\* an acceptQuest that does not look at the room or at the quest already held
acceptQuestAnywhere(st, playerId) ==
  IF getPlayerState(st, playerId) = Undefined THEN [st |-> st, ok |-> FALSE]
  ELSE [st |-> emit([st EXCEPT !.players[playerId].hasQuest = TRUE],
                    "PROMPTS_CHANGED", playerId),
        ok |-> TRUE]

\* acceptQuest(playerId)
acceptQuest(st, playerId) ==
  IF getPlayerState(st, playerId) = Undefined THEN [st |-> st, ok |-> FALSE]
  ELSE
    LET playerState == getPlayerState(st, playerId) IN
    IF playerState.room \notin DOMAIN st.rooms
       \/ ~RoomHasQuest[playerState.room]
       \/ playerState.hasQuest
    THEN [st |-> st, ok |-> FALSE]
    ELSE [st |-> emit([st EXCEPT !.players[playerId].hasQuest = TRUE],
                      "PROMPTS_CHANGED", playerId),
          ok |-> TRUE]

\* canBattle(playerId)
canBattle(st, playerId) ==
  IF getPlayerState(st, playerId) = Undefined THEN FALSE
  ELSE IF ~getPlayerState(st, playerId).monsterPresent THEN FALSE
  ELSE /\ getPlayerState(st, playerId).room \in DOMAIN st.rooms
       /\ Len(st.rooms[getPlayerState(st, playerId).room].monsters) > 0

\* a battle whose victory clears the flag of every player in the room
battleClearingRoom(st, playerId, env) ==
  IF ~canBattle(st, playerId) THEN [st |-> st, ok |-> FALSE, monsterName |-> NoKey]
  ELSE
    LET room == getPlayerState(st, playerId).room
        monsterName == Head(st.rooms[room].monsters)
    IN IF ~env.playerWins THEN [st |-> st, ok |-> FALSE, monsterName |-> monsterName]
       ELSE [st |-> emit(emit(
                     [st EXCEPT !.rooms[room].monsters = FilterOut(@, monsterName),
                                !.players = [p \in DOMAIN @ |->
                                   IF @[p].room = room
                                   THEN [@[p] EXCEPT !.monsterPresent = FALSE]
                                   ELSE @[p]]],
                     "TOOLS_CHANGED", playerId), "PROMPTS_CHANGED", playerId),
             ok |-> TRUE, monsterName |-> monsterName]

\* battle(playerId): ok is the success field of the returned record; env.playerWins
\* tells whether Math.random() >= 0.5
battle(st, playerId, env) ==
  IF getPlayerState(st, playerId) = Undefined
  THEN [st |-> st, ok |-> FALSE, monsterName |-> NoKey]
  ELSE
    LET playerState == getPlayerState(st, playerId) IN
    IF ~playerState.monsterPresent THEN [st |-> st, ok |-> FALSE, monsterName |-> NoKey]
    ELSE IF playerState.room \notin DOMAIN st.rooms
            \/ Len(st.rooms[playerState.room].monsters) = 0
    THEN [st |-> st, ok |-> FALSE, monsterName |-> NoKey]
    ELSE
      LET monsterName == Head(st.rooms[playerState.room].monsters) IN
      IF ~env.playerWins THEN [st |-> st, ok |-> FALSE, monsterName |-> monsterName]
      ELSE [st |-> emit(emit(
                    [st EXCEPT !.rooms[playerState.room].monsters = FilterOut(@, monsterName),
                               !.players[playerId].monsterPresent = FALSE],
                    "TOOLS_CHANGED", playerId), "PROMPTS_CHANGED", playerId),
            ok |-> TRUE, monsterName |-> monsterName]

(***************************************************************************)
(* ToolsService: the tool handlers.  A handler takes the tool arguments    *)
(* (a record holding the arguments that were supplied), the call context   *)
(* and env, the outcomes of what the handler cannot control (Math.random,  *)
(* the transport send of a sampling request); it yields the new store and  *)
(* either a ToolResult, or threw (an exception left the handler), or       *)
(* await (the handler is suspended on a sampling round trip).              *)
(***************************************************************************)
\* params[key], or NoKey when the argument was not supplied
Arg(params, key) == IF key \in DOMAIN params THEN params[key] ELSE NoKey

ErrorResult(text) == [content |-> text, isError |-> TRUE]

\* the checks every handler starts with: Undefined when they pass
sessionCheck(st, context) ==
  IF context.sessionId = Undefined THEN ErrorResult("no_session_id")
  ELSE IF getSession(st, context.sessionId) = Undefined THEN ErrorResult("invalid_session")
  ELSE IF getPlayerState(st, getSession(st, context.sessionId).playerId) = Undefined
       THEN ErrorResult("no_player_state")
  ELSE IF getPlayerState(st, getSession(st, context.sessionId).playerId).room \notin DOMAIN st.rooms
       THEN ErrorResult("invalid_room")
  ELSE Undefined

lookHandler(st, params, context, env) ==
  IF sessionCheck(st, context) # Undefined
  THEN [st |-> st, result |-> sessionCheck(st, context)]
  ELSE [st |-> st, result |-> [content |-> "room_text"]]

inventoryHandler(st, params, context, env) ==
  IF sessionCheck(st, context) # Undefined
  THEN [st |-> st, result |-> sessionCheck(st, context)]
  ELSE LET session == getSession(st, context.sessionId)
           playerState == getPlayerState(st, session.playerId)
       IN IF Len(playerState.inventory) = 0
          THEN [st |-> st, result |-> [content |-> "inventory_empty"]]
          ELSE [st |-> st, result |-> [content |-> "inventory_list"]]

\* the result moveHandler returns when the room has no exit in the direction
noExitResult == [content |-> "cant_go", isError |-> FALSE]

\* a moveHandler that looks the direction up as it was typed
moveHandlerCaseSensitive(st, params, context, env) ==
  IF sessionCheck(st, context) # Undefined
  THEN [st |-> st, result |-> sessionCheck(st, context)]
  ELSE
    LET session == getSession(st, context.sessionId)
        direction == Arg(params, "direction")
        playerState == getPlayerState(st, session.playerId)
    IN
    IF direction = NoKey THEN [st |-> st, result |-> ErrorResult("error_moving")]
    ELSE IF direction \notin DOMAIN Exits[playerState.room]
    THEN [st |-> st, result |-> noExitResult]
    ELSE
      LET u == updatePlayerRoom(st, session.playerId, Exits[playerState.room][direction])
      IN [st |-> emit(u.st, "TOOLS_CHANGED", session.playerId),
          result |-> [content |-> "moved"]]

moveHandler(st, params, context, env) ==
  IF sessionCheck(st, context) # Undefined
  THEN [st |-> st, result |-> sessionCheck(st, context)]
  ELSE
    LET session == getSession(st, context.sessionId)
        direction == Arg(params, "direction")
        playerState == getPlayerState(st, session.playerId)
    IN
    \* direction.toLowerCase() on undefined throws; the handler's catch converts it
    IF direction = NoKey THEN [st |-> st, result |-> ErrorResult("error_moving")]
    ELSE IF toLowerCase(direction) \notin DOMAIN Exits[playerState.room]
    THEN [st |-> st, result |-> noExitResult]
    ELSE
      LET targetRoomId == Exits[playerState.room][toLowerCase(direction)] IN
      IF targetRoomId \notin DOMAIN st.rooms
      THEN [st |-> st, result |-> ErrorResult("target_room_not_found")]
      ELSE
        LET u == updatePlayerRoom(st, session.playerId, targetRoomId)
            st2 == emit(u.st, "TOOLS_CHANGED", session.playerId)
        IN [st |-> st2, result |-> [content |-> "moved"]]

takeHandler(st, params, context, env) ==
  IF sessionCheck(st, context) # Undefined
  THEN [st |-> st, result |-> sessionCheck(st, context)]
  ELSE
    LET session == getSession(st, context.sessionId)
        item == Arg(params, "item")
        playerState == getPlayerState(st, session.playerId)
        room == st.rooms[playerState.room]
    IN
    \* item.toLowerCase() on undefined throws inside find; takeHandler has no catch
    IF item = NoKey THEN [st |-> st, threw |-> "TypeError"]
    ELSE
      LET itemId == FindIdByName(ItemKeys, ItemName, item) IN
      IF itemId = NoKey \/ ~Includes(room.items, itemId)
      THEN [st |-> st, result |-> [content |-> "no_such_item", isError |-> FALSE]]
      ELSE
        LET a == addItemToInventory(st, session.playerId, itemId)
            r == removeItemFromRoom(a.st, playerState.room, itemId)
            st3 == emit(r.st, "TOOLS_CHANGED", session.playerId)
        IN [st |-> st3, result |-> [content |-> "taken"]]

\* a battleHandler that removes the defeated monster and does not refresh the
\* player's record
battleHandlerSkippingUpdate(st, params, context, env) ==
  IF sessionCheck(st, context) # Undefined
  THEN [st |-> st, result |-> sessionCheck(st, context)]
  ELSE
    LET session == getSession(st, context.sessionId)
        monster == Arg(params, "monster")
        playerState == getPlayerState(st, session.playerId)
        room == st.rooms[playerState.room]
    IN
    IF monster = NoKey THEN [st |-> st, threw |-> "TypeError"]
    ELSE
      LET monsterId == FindIdByName(MonsterKeys, MonsterName, monster) IN
      IF monsterId = NoKey \/ ~Includes(room.monsters, monsterId)
      THEN [st |-> st, result |-> [content |-> "no_such_monster", isError |-> FALSE]]
      ELSE IF env.playerWins
      THEN [st |-> emit([st EXCEPT !.rooms[playerState.room].monsters = FilterOut(@, monsterId)],
                        "TOOLS_CHANGED", session.playerId),
            result |-> [content |-> "battle_won"]]
      ELSE [st |-> st, result |-> [content |-> "battle_lost"]]

battleHandler(st, params, context, env) ==
  IF sessionCheck(st, context) # Undefined
  THEN [st |-> st, result |-> sessionCheck(st, context)]
  ELSE
    LET session == getSession(st, context.sessionId)
        monster == Arg(params, "monster")
        playerState == getPlayerState(st, session.playerId)
        room == st.rooms[playerState.room]
    IN
    IF monster = NoKey THEN [st |-> st, threw |-> "TypeError"]
    ELSE
      LET monsterId == FindIdByName(MonsterKeys, MonsterName, monster) IN
      IF monsterId = NoKey \/ ~Includes(room.monsters, monsterId)
      THEN [st |-> st, result |-> [content |-> "no_such_monster", isError |-> FALSE]]
      ELSE IF env.playerWins
      THEN
        LET st1 == [st EXCEPT !.rooms[playerState.room].monsters = FilterOut(@, monsterId)]
            u == updatePlayerRoom(st1, session.playerId, playerState.room)
            st3 == emit(u.st, "TOOLS_CHANGED", session.playerId)
        IN [st |-> st3, result |-> [content |-> "battle_won"]]
      ELSE [st |-> st, result |-> [content |-> "battle_lost"]]

\* the sampling/createMessage request the transport sampling handler sends
samplingRequest(st) ==
  [jsonrpc |-> "2.0", id |-> [k |-> "sampling", n |-> st.clock],
   method |-> "sampling/createMessage", params |-> "request"]

\* the result talkHandler's catch returns
conversationError == ErrorResult("error_during_conversation")

talkHandler(st, params, context, env) ==
  IF context.sessionId = Undefined THEN [st |-> st, result |-> ErrorResult("no_session_id")]
  ELSE IF getSession(st, context.sessionId) = Undefined
  THEN [st |-> st, result |-> ErrorResult("invalid_session")]
  ELSE IF ~isAvailable(st) THEN [st |-> st, result |-> ErrorResult("no_sampling")]
  ELSE IF sessionCheck(st, context) # Undefined
  THEN [st |-> st, result |-> sessionCheck(st, context)]
  \* target.toLowerCase() on undefined throws; the handler's catch converts it
  ELSE IF Arg(params, "target") = NoKey THEN [st |-> st, result |-> conversationError]
  \* the handler set by initialize throws when it is called
  ELSE IF st.samplingHandler = "stub" THEN [st |-> st, result |-> conversationError]
  \* the transport handler hands the request to the transport and waits
  ELSE LET st1 == [st EXCEPT !.out = Append(@, samplingRequest(st))] IN
       IF env.sendOk THEN [st |-> st1, await |-> TRUE]
       ELSE [st |-> st1, result |-> conversationError]

toolHandler(name, st, params, context, env) ==
  CASE name = "look"      -> lookHandler(st, params, context, env)
    [] name = "move"      -> moveHandler(st, params, context, env)
    [] name = "inventory" -> inventoryHandler(st, params, context, env)
    [] name = "take"      -> takeHandler(st, params, context, env)
    [] name = "battle"    -> battleHandler(st, params, context, env)
    [] name = "talk"      -> talkHandler(st, params, context, env)

\* the try/catch of executeTool around the handler call h
handlerOutcome(h) ==
  IF "threw" \in DOMAIN h
  THEN [st |-> h.st, result |-> ErrorResult("error_executing_tool"), ran |-> TRUE]
  ELSE IF "await" \in DOMAIN h
  THEN [st |-> h.st, await |-> TRUE, ran |-> TRUE]
  ELSE [st |-> h.st, result |-> h.result, ran |-> TRUE]

\* executeTool(name, params, context)
executeTool(st, name, params, context, env) ==
  IF name \notin RegisteredTools
  THEN [st |-> st, result |-> ErrorResult("tool_not_found"), ran |-> FALSE]
  ELSE handlerOutcome(toolHandler(name, st, params, context, env))

(***************************************************************************)
(* McpServer.handleRequest.  A request is a record [id, method, sessionId, *)
(* name, arguments, sampling, uri]: sessionId is params.sessionId          *)
(* (Undefined when the client supplied none), sampling tells whether       *)
(* params.capabilities declares sampling.  The promise handleRequest       *)
(* returns is modelled by its outcome: a Response (kind "result"), null    *)
(* (kind "null"), a rejection (kind "throw") or still pending (kind        *)
(* "await").                                                               *)
(***************************************************************************)
\* the definitions registerResources passes to server.registerResource
ResourceDefinitions ==
  <<[name |-> "World Description", uriPattern |-> "mud://world/description"],
    [name |-> "Items Catalog",     uriPattern |-> "mud://world/items"],
    [name |-> "Quest Information", uriPattern |-> "mud://world/quests"],
    [name |-> "Player Guide",      uriPattern |-> "mud://help/guide"],
    [name |-> "Player Status",     uriPattern |-> "mud://player/status"]>>

\* a registry keyed by the name of the definition
resourceKeyByName(definition) == definition.name

\* registerResource: the key under which a definition is stored
resourceKey(definition) ==
  IF definition.uriPattern # "" THEN definition.uriPattern ELSE definition.name

\* the keys of this.resources, in insertion order
RegisteredResources ==
  [i \in 1..Len(ResourceDefinitions) |-> resourceKey(ResourceDefinitions[i])]

\* the uris resources/list returns
listedUris == [i \in 1..Len(ResourceDefinitions) |-> ResourceDefinitions[i].uriPattern]

successResponse(id, result) == [jsonrpc |-> "2.0", id |-> id, result |-> result]

Resolved(id, result) == [kind |-> "result", response |-> successResponse(id, result)]

Thrown(message) == [kind |-> "throw", message |-> message]

\* a dispatcher that creates no session
rejectMissingSession(st) == [st |-> st, sessionId |-> Undefined, created |-> FALSE]

\* what handleRequest does when the session the request names does not exist
onMissingSession(st) ==
  LET c == createSession(st) IN [st |-> c.st, sessionId |-> c.session.id, created |-> TRUE]

\* a session block that exempts no method
resolveSessionForAll(st, request) ==
  LET sessionId == IF request.sessionId = Undefined THEN DEFAULT_SID
                   ELSE request.sessionId
  IN IF getSession(st, sessionId) = Undefined
     THEN onMissingSession(st)
     ELSE [st |-> st, sessionId |-> getSession(st, sessionId).id, created |-> FALSE]

\* the session block: the store, params.sessionId afterwards, and whether a
\* session was created
resolveSession(st, request) ==
  IF request.method # "initialize" /\ request.method # "ping"
  THEN LET sessionId == IF request.sessionId = Undefined THEN DEFAULT_SID
                        ELSE request.sessionId
       IN IF getSession(st, sessionId) = Undefined
          THEN onMissingSession(st)
          ELSE [st |-> st, sessionId |-> getSession(st, sessionId).id, created |-> FALSE]
  ELSE [st |-> st, sessionId |-> request.sessionId, created |-> FALSE]

\* case 'initialize'
handleInitialize(st, request) ==
  LET c == createSession(st)
      st1 == [c.st EXCEPT !.clientCapabilities = [sampling |-> request.sampling]]
      st2 == IF st1.clientCapabilities.sampling
             THEN [st1 EXCEPT !.samplingHandler = "stub"]
             ELSE st1
      playerState == getPlayerState(st2, c.session.id)
      st3 == emit(st2, "TOOLS_CHANGED",
                  IF playerState = Undefined THEN Undefined ELSE playerState.player_id)
  IN [st |-> st3,
      outcome |-> Resolved(request.id, [protocolVersion |-> "2025-03-26",
                                        session |-> [id |-> c.session.id]])]

\* case 'tools/list'
handleToolsList(st, request, sessionId) ==
  LET session == getSession(st, sessionId)
      sessionPlayerId == IF session = Undefined THEN Undefined ELSE session.playerId
  IN [st |-> st,
      outcome |-> Resolved(request.id, [tools |-> getAvailableTools(st, sessionPlayerId)])]

\* a check that looks at the registered tools only
toolIsRegistered(st, playerId, name) == name \in RegisteredTools

\* the check of tools/call that the tool is in the player's current list
toolIsAvailable(st, playerId, name) == Includes(getAvailableTools(st, playerId), name)

\* the Response of tools/call from what executeTool returned, e
toolCallOutcome(request, e) ==
  IF "await" \in DOMAIN e
  THEN [st |-> e.st, outcome |-> [kind |-> "await"], ran |-> e.ran]
  ELSE [st |-> e.st, outcome |-> Resolved(request.id, e.result), ran |-> e.ran]

\* case 'tools/call'
handleToolsCall(st, request, sessionId, env) ==
  LET session == getSession(st, sessionId)
      playerState == getPlayerState(st, session.playerId)
  IN \* session.playerId on undefined throws a TypeError
     IF session = Undefined
     THEN [st |-> st, outcome |-> Thrown("TypeError"), ran |-> FALSE]
     ELSE IF playerState = Undefined
     THEN [st |-> st, outcome |-> Thrown("Session not found"), ran |-> FALSE]
     ELSE IF ~toolIsAvailable(st, playerState.player_id, request.name)
     THEN [st |-> st, outcome |-> Thrown("Tool not found"), ran |-> FALSE]
     ELSE toolCallOutcome(request, executeTool(st, request.name, request.arguments,
                                               [sessionId |-> sessionId], env))

\* case 'prompts/list'
handlePromptsList(st, request, sessionId) ==
  LET session == getSession(st, sessionId)
      playerState == IF session = Undefined THEN Undefined
                     ELSE getPlayerState(st, session.playerId)
  IN IF playerState = Undefined
     THEN [st |-> st, outcome |-> Thrown("Session not found")]
     ELSE [st |-> st,
           outcome |-> Resolved(request.id,
                         [prompts |-> getAvailablePrompts(st, playerState.player_id)])]

\* case 'prompts/get': executePrompt reads state only and never throws
handlePromptsGet(st, request) ==
  [st |-> st,
   outcome |-> Resolved(request.id,
                 [messages |-> IF Includes(st.prompts, request.name)
                               THEN "prompt_text" ELSE "prompt_not_found"])]

\* case 'resources/list'
handleResourcesList(st, request) ==
  [st |-> st, outcome |-> Resolved(request.id, [resources |-> listedUris])]

\* case 'resources/read': the resource handlers read state only
\* what the Player Status text tells of a PlayerState
statusText(playerState) ==
  [location |-> playerState.room, inventory |-> playerState.inventory,
   questActive |-> playerState.hasQuest, monsterPresent |-> playerState.monsterPresent]

\* the text of the fallback: 'Player status information is unavailable.'
statusUnavailable == [unavailable |-> TRUE]

\* the handler of 'Player Status': getPlayerState(context.sessionId || '')
playerStatus(st, uri, context) ==
  IF getPlayerState(st, context.sessionId) = Undefined
  THEN [uri |-> uri, text |-> statusUnavailable]
  ELSE [uri |-> uri, text |-> statusText(getPlayerState(st, context.sessionId))]

\* resource.handler(uri, validatedParams, context); the other resources are
\* fixed texts
resourceHandler(st, uri, context) ==
  IF uri = "mud://player/status" THEN playerStatus(st, uri, context)
  ELSE [uri |-> uri, text |-> "text"]

handleResourcesRead(st, request, sessionId) ==
  IF ~Includes(RegisteredResources, request.uri)
  THEN [st |-> st, outcome |-> Thrown("Resource not found"), ran |-> FALSE]
  ELSE [st |-> st,
        outcome |-> Resolved(request.id,
                      [contents |-> resourceHandler(st, request.uri,
                                                    [sessionId |-> sessionId])]),
        ran |-> TRUE]

\* case 'ping'
handlePing(st, request) ==
  [st |-> st, outcome |-> Resolved(request.id, [empty |-> TRUE])]

\* setSamplingTransport(transportSend)
setSamplingTransport(st) ==
  IF ~st.clientCapabilities.sampling THEN st
  ELSE [st EXCEPT !.samplingHandler = "transport"]

\* case 'notifications/initialized'
handleInitialized(st, request) ==
  LET st1 == publishInitialLists(st)
      st2 == IF st1.clientCapabilities.sampling /\ st1.transportSend
             THEN setSamplingTransport(st1)
             ELSE st1
  IN [st |-> st2, outcome |-> [kind |-> "null"]]

\* switch (request.method), in the store st left by the session block
dispatch(st, request, sessionId, env) ==
  LET m == request.method IN
  CASE m = "initialize"     -> handleInitialize(st, request)
    [] m = "tools/list"     -> handleToolsList(st, request, sessionId)
    [] m = "tools/call"     -> handleToolsCall(st, request, sessionId, env)
    [] m = "prompts/list"   -> handlePromptsList(st, request, sessionId)
    [] m = "prompts/get"    -> handlePromptsGet(st, request)
    [] m = "resources/list" -> handleResourcesList(st, request)
    [] m = "resources/read" -> handleResourcesRead(st, request, sessionId)
    [] m = "ping"           -> handlePing(st, request)
    [] m = "notifications/initialized" -> handleInitialized(st, request)
    [] m = "sampling/createMessage" ->
         [st |-> st,
          outcome |-> Thrown("Servers send sampling requests, they do not receive them")]
    [] OTHER -> [st |-> st, outcome |-> Thrown("Method not found")]

\* what a call of handleRequest did: r is the session block's result and c the
\* switch's.  resolved is the store after the session block, avail the tool
\* list of the session's player in it, ran whether a tool or resource handler ran.
handled(request, r, c) ==
  [st |-> c.st, outcome |-> c.outcome,
   sessionId |-> r.sessionId, created |-> r.created,
   resolved |-> r.st,
   avail |-> IF request.method = "tools/call" /\ getSession(r.st, r.sessionId) # Undefined
             THEN getAvailableTools(r.st, getSession(r.st, r.sessionId).playerId)
             ELSE <<>>,
   ran |-> IF "ran" \in DOMAIN c THEN c.ran ELSE FALSE]

\* handleRequest after its session block
dispatchResolved(request, env, r) ==
  handled(request, r, dispatch(r.st, request, r.sessionId, env))

handleRequest(st, request, env) ==
  dispatchResolved(request, env, resolveSession(st, request))

(***************************************************************************)
(* The inputs.                                                             *)
(***************************************************************************)
\* an arguments object that holds none of the tools' arguments
NoArgs == [noargs |-> TRUE]

\* the directions callers send: the four of the schema's enum, one of them in
\* another case, and one outside the enum
DirectionInputs == {"north", "south", "east", "west", "North", "up"}

ToolArguments(name) ==
  CASE name = "move"   -> {[direction |-> d] : d \in DirectionInputs} \cup {NoArgs}
    [] name = "take"   -> {[item |-> "Magic Gem"], [item |-> "torch"]}
    [] name = "battle" -> {[monster |-> "Cave Goblin"], [monster |-> "ancient dragon"],
                           [monster |-> "troll"]}
    [] name = "talk"   -> {[target |-> "goblin", message |-> "hello"]}
    [] OTHER           -> {NoArgs}

ToolNameInputs == RegisteredTools \cup {"fly"}

BaseRequest(id, sid, method) ==
  [id |-> id, method |-> method, sessionId |-> sid, name |-> "", arguments |-> NoArgs,
   sampling |-> FALSE, uri |-> ""]

\* the requests of every method but tools/call, with a given id and session id
MethodInputs(id, sid) ==
       {BaseRequest(id, sid, m) :
          m \in {"ping", "tools/list", "prompts/list", "resources/list",
                 "notifications/initialized", "sampling/createMessage", "unknown/method"}}
  \cup {[BaseRequest(id, sid, "initialize") EXCEPT !.sampling = b] : b \in BOOLEAN}
  \cup {[BaseRequest(id, sid, "prompts/get") EXCEPT !.name = "welcome"]}
  \cup {[BaseRequest(id, sid, "resources/read") EXCEPT !.uri = u] :
          u \in {"mud://player/status", "mud://nowhere", "Player Status"}}

\* every tools/call the model draws
ToolCallInputs(id, sid) ==
  UNION {{[BaseRequest(id, sid, "tools/call") EXCEPT !.name = n, !.arguments = a] :
            a \in ToolArguments(n)} : n \in ToolNameInputs}

\* a few tools/call: a read-only tool, a move, a refused move, a battle, a
\* suspending tool and an unregistered name
FewToolCallInputs(id, sid) ==
  {[BaseRequest(id, sid, "tools/call") EXCEPT !.name = c[1], !.arguments = c[2]] :
     c \in {<<"look", NoArgs>>, <<"move", [direction |-> "north"]>>,
            <<"move", [direction |-> "up"]>>, <<"battle", [monster |-> "Cave Goblin"]>>,
            <<"talk", [target |-> "goblin", message |-> "hello"]>>, <<"fly", NoArgs>>}}

\* the outcomes of Math.random and of the send of a sampling request; only
\* the calls that use one of them draw it
EnvInputs(st, request) ==
  {[playerWins |-> w, sendOk |-> k] :
     w \in (IF request.method = "tools/call" /\ request.name = "battle"
            THEN BOOLEAN ELSE {FALSE}),
     k \in (IF request.method = "tools/call" /\ request.name = "talk"
            THEN BOOLEAN ELSE {TRUE})}

(***************************************************************************)
(* Initial state and actions.                                              *)
(***************************************************************************)
EmptyMap == [x \in {} |-> Undefined]

\* a TransportAdapter that has read nothing and has nothing to read
NoInput == [input |-> <<>>, read |-> <<>>, messageBuffer |-> <<>>, messages |-> <<>>]

Init ==
  /\ clock = 0
  /\ players = EmptyMap
  /\ sessions = EmptyMap
  /\ rooms = initialRooms
  /\ transportSend = FALSE
  /\ clientCapabilities = [sampling |-> FALSE]
  /\ samplingHandler = "none"
  /\ timers = <<>>
  /\ reqs = <<>>
  /\ sampling = <<>>
  /\ prompts = RegisteredPrompts
  /\ adapter = NoInput
  /\ out = <<>>
  /\ events = <<>>
  /\ last = [op |-> "init"]
  /\ alive = TRUE

\* the services' part of the next state is the store st
Commit(st) ==
  /\ players' = st.players
  /\ sessions' = st.sessions
  /\ rooms' = st.rooms
  /\ transportSend' = st.transportSend
  /\ clientCapabilities' = st.clientCapabilities
  /\ samplingHandler' = st.samplingHandler
  /\ timers' = st.timers
  /\ prompts' = st.prompts
  /\ out' = st.out
  /\ events' = st.events

\* time passes: Date.now() advances
Tick ==
  /\ alive
  /\ clock < MaxClock
  /\ clock' = clock + 1
  /\ Commit(Store)
  /\ last' = [op |-> "Tick"]
  /\ UNCHANGED <<reqs, sampling, alive, adapter>>

\* server.setTransportSend(sender)
SetTransportSend ==
  /\ alive
  /\ Commit(publishInitialLists([Store EXCEPT !.transportSend = TRUE]))
  /\ last' = [op |-> "setTransportSend"]
  /\ UNCHANGED <<clock, reqs, sampling, alive, adapter>>

\* a direct call of stateService.createSession()
CallCreateSession ==
  /\ alive
  /\ LET c == createSession(Store) IN
       /\ Commit(c.st)
       /\ last' = [op |-> "createSession", session |-> c.session]
  /\ UNCHANGED <<clock, reqs, sampling, alive, adapter>>

\* what a step that handled a request records about it
RequestLabel(op, request, env, h) ==
  [op |-> op, request |-> request, env |-> env, outcome |-> h.outcome,
   sessionId |-> h.sessionId, created |-> h.created, resolved |-> h.resolved,
   avail |-> h.avail, ran |-> h.ran]

\* the state after handleRequest ran up to its return or its first suspension
ReturnFrom(op, request, env, h) ==
  /\ Commit(h.st)
  /\ last' = RequestLabel(op, request, env, h)

\* the requests of a caller that names any session id, or none
ApiRequests ==
  UNION {MethodInputs(1, sid) \cup FewToolCallInputs(1, sid) :
           sid \in {Undefined, SESSION_1234, OTHER_SID}}

\* a direct call of server.handleRequest(request); the Response is returned
\* to the caller
CallHandleRequest ==
  /\ alive
  /\ \E request \in ApiRequests :
     \E env \in EnvInputs(Store, request) :
       ReturnFrom("handleRequest", request, env, handleRequest(Store, request, env))
  /\ UNCHANGED <<clock, reqs, sampling, alive, adapter>>

\* the requests of a caller that keeps to the session id the server hands out
\* and plays the game
PlayerRequests == MethodInputs(1, SESSION_1234) \cup ToolCallInputs(1, SESSION_1234)

\* server.handleRequest(request) called by the player
CallPlayer ==
  /\ alive
  /\ \E request \in PlayerRequests :
     \E env \in EnvInputs(Store, request) :
       ReturnFrom("handleRequest", request, env, handleRequest(Store, request, env))
  /\ UNCHANGED <<clock, reqs, sampling, alive, adapter>>

(***************************************************************************)
(* The message loop of index.ts.                                           *)
(***************************************************************************)
\* the messages with an id that the client sends over the transport: one
\* request of each row of the method table, an unknown method, a notification
\* method sent with an id, and tools/call of a state-changing tool, of a tool
\* that is registered and not listed, and of the suspending tool
MessageInputs(id) ==
       {BaseRequest(id, Undefined, m) :
          m \in {"ping", "tools/list", "notifications/initialized",
                 "sampling/createMessage", "unknown/method"}}
  \cup {[BaseRequest(id, Undefined, "initialize") EXCEPT !.sampling = b] : b \in BOOLEAN}
  \cup {[BaseRequest(id, Undefined, "tools/call") EXCEPT !.name = c[1], !.arguments = c[2]] :
          c \in {<<"move", [direction |-> "north"]>>,
                 <<"battle", [monster |-> "Cave Goblin"]>>,
                 <<"talk", [target |-> "goblin", message |-> "hello"]>>}}

errorResponse(id, message) ==
  [jsonrpc |-> "2.0", id |-> id, error |-> [code |-> -32000, message |-> message]]

\* the session id index.ts writes into the params of every request
forcedSessionId(request) == SESSION_1234

\* request.params.sessionId = 'session_1234'
withSessionId(request) == [request EXCEPT !.sessionId = forcedSessionId(request)]

\* the promise of handleRequest(request) is pending until .then or .catch runs
Submitted(request, env, h) ==
  /\ ReturnFrom("onRequest", withSessionId(request), env, h)
  /\ reqs' = Append(reqs, [st |-> IF h.outcome.kind = "await" THEN "suspended"
                                  ELSE "settled",
                           outcome |-> h.outcome, resp |-> 0])

\* transport.onMessage, a message with an id: handleRequest runs up to its
\* first suspension
OnRequest ==
  /\ alive
  /\ Len(reqs) < MaxRequests
  /\ \E request \in MessageInputs(Len(reqs) + 1) :
     \E env \in EnvInputs(Store, request) :
       Submitted(request, env, handleRequest(Store, withSessionId(request), env))
  /\ UNCHANGED <<clock, sampling, alive, adapter>>

\* a talkHandler that, resumed by the timeout, moves the player it looked up
\* before it was suspended
SamplingTimeoutThenMoves ==
  /\ alive
  /\ \E i \in 1..Len(reqs) :
       /\ reqs[i].st = "suspended"
       /\ reqs' = [reqs EXCEPT ![i].st = "settled",
                               ![i].outcome = Resolved(i, conversationError)]
       /\ last' = [op |-> "samplingTimeout", id |-> i]
  /\ Commit(updatePlayerRoom(Store, sessions[SESSION_1234].playerId, "entrance").st)
  /\ UNCHANGED <<clock, sampling, alive, adapter>>

\* the 30 second timeout of a sampling request rejects it; talkHandler's catch
\* turns the rejection into a result
SamplingTimeout ==
  /\ alive
  /\ \E i \in 1..Len(reqs) :
       /\ reqs[i].st = "suspended"
       /\ reqs' = [reqs EXCEPT ![i].st = "settled",
                               ![i].outcome = Resolved(i, conversationError)]
       /\ last' = [op |-> "samplingTimeout", id |-> i]
  /\ Commit(Store)
  /\ UNCHANGED <<clock, sampling, alive, adapter>>

\* what the .then callback does with the value handleRequest resolved to
thenSends(outcome) == IF outcome.kind = "result" THEN <<outcome.response>> ELSE <<>>

\* the callbacks chained on handleRequest(request): .then hands the Response
\* to the transport; a rejection of handleRequest goes to .catch
Then ==
  /\ alive
  /\ \E i \in 1..Len(reqs) : \E ok \in BOOLEAN :
       /\ reqs[i].st = "settled"
       /\ IF reqs[i].outcome.kind = "throw"
          THEN /\ reqs' = [reqs EXCEPT ![i].st = "rejected"]
               /\ Commit(Store)
          ELSE /\ Commit([Store EXCEPT !.out = thenSends(reqs[i].outcome)])
               /\ reqs' = [reqs EXCEPT
                    ![i].st = IF thenSends(reqs[i].outcome) # <<>> /\ ~ok
                              THEN "rejected" ELSE "done",
                    ![i].outcome = IF thenSends(reqs[i].outcome) # <<>> /\ ~ok
                                   THEN Thrown("send failed") ELSE [kind |-> "none"],
                    ![i].resp = @ + Len(thenSends(reqs[i].outcome))]
       /\ last' = [op |-> "then", id |-> i]
  /\ UNCHANGED <<clock, sampling, alive, adapter>>

\* .catch hands an error Response to the transport; when that send fails the
\* rejection is unhandled and the process exits
Catch ==
  /\ \E i \in 1..Len(reqs) : \E ok \in BOOLEAN :
       /\ alive
       /\ reqs[i].st = "rejected"
       /\ Commit([Store EXCEPT !.out = <<errorResponse(i, reqs[i].outcome.message)>>])
       /\ reqs' = [reqs EXCEPT ![i].st = "done", ![i].outcome = [kind |-> "none"],
                               ![i].resp = @ + 1]
       /\ alive' = ok
       /\ last' = [op |-> "catch", id |-> i]
  /\ UNCHANGED <<clock, sampling, adapter>>

\* transport.onMessage, a message without an id: it is handed back to the
\* transport; when that send fails the rejection is unhandled
OnNotification ==
  /\ alive
  /\ \E m \in {"notifications/initialized", "notifications/cancelled"} : \E ok \in BOOLEAN :
       /\ Commit([Store EXCEPT !.out = <<[jsonrpc |-> "2.0", method |-> m, params |-> NoArgs]>>])
       /\ alive' = ok
       /\ last' = [op |-> "onNotification", method |-> m]
  /\ UNCHANGED <<clock, reqs, sampling, adapter>>

\* main() of index.ts: the server is constructed and its transport sender is
\* set before the transport is started
InitMain ==
  LET st == publishInitialLists([
        clock |-> 0, players |-> EmptyMap, sessions |-> EmptyMap, rooms |-> initialRooms,
        transportSend |-> TRUE, clientCapabilities |-> [sampling |-> FALSE],
        samplingHandler |-> "none", timers |-> <<>>, prompts |-> RegisteredPrompts,
    out |-> <<>>, events |-> <<>>])
  IN /\ clock = 0
     /\ players = st.players
     /\ sessions = st.sessions
     /\ rooms = st.rooms
     /\ transportSend = st.transportSend
     /\ clientCapabilities = st.clientCapabilities
     /\ samplingHandler = st.samplingHandler
     /\ timers = st.timers
     /\ out = st.out
     /\ events = st.events
     /\ reqs = <<>>
     /\ sampling = <<>>
     /\ prompts = st.prompts
     /\ adapter = NoInput
     /\ last = [op |-> "main"]
     /\ alive = TRUE

Next ==
  \/ Tick
  \/ OnRequest
  \/ OnNotification
  \/ SamplingTimeout
  \/ Then
  \/ Catch

Spec == InitMain /\ [][Next]_vars

\* McpServer.removePrompt(name): PromptsService deletes the prompt, then the
\* change is announced for the player 'all'
removePrompt(st, name) ==
  emit([st EXCEPT !.prompts = FilterOut(@, name)], "PROMPTS_CHANGED", ALL_PLAYERS)

\* a registered prompt that is always offered, and a name that is not registered
PromptNameInputs == {"welcome", "farewell"}

\* a direct call of server.removePrompt(name)
CallRemovePrompt ==
  /\ alive
  /\ \E name \in PromptNameInputs :
       /\ Commit(removePrompt(Store, name))
       /\ last' = [op |-> "removePrompt", name |-> name]
  /\ UNCHANGED <<clock, reqs, sampling, alive, adapter>>

NextApi ==
  \/ Tick
  \/ SetTransportSend
  \/ CallCreateSession
  \/ CallHandleRequest
  \/ CallRemovePrompt

SpecApi == Init /\ [][NextApi]_vars

NextGame ==
  \/ Tick
  \/ SetTransportSend
  \/ CallPlayer

SpecGame == Init /\ [][NextGame]_vars

(***************************************************************************)
(* Properties.                                                             *)
(***************************************************************************)
IsResponse(m) == "id" \in DOMAIN m /\ ("result" \in DOMAIN m \/ "error" \in DOMAIN m)

IsNotification(m) == "method" \in DOMAIN m /\ "result" \notin DOMAIN m /\ "error" \notin DOMAIN m
                     /\ m.method # "sampling/createMessage"

\* a notification of the given method was handed to the transport by the last step
Notified(method) ==
  \E k \in 1..Len(out) : IsNotification(out[k]) /\ out[k].method = method

\* the last step handled a request
IsRequestStep == last.op \in {"handleRequest", "onRequest"}

IsToolCall(names) ==
  IsRequestStep /\ last.request.method = "tools/call" /\ last.request.name \in names

NeedsSession == last.request.method \notin {"initialize", "ping"}

\* the player the request of the last step was served for
Caller == getSession(last.resolved, last.sessionId).playerId

\* room, inventory, hasQuest and monsterPresent of the player of session s
SubjectState(st, s) ==
  LET p == st.players[st.sessions[s].playerId]
  IN [room |-> p.room, inventory |-> p.inventory, hasQuest |-> p.hasQuest,
      monsterPresent |-> p.monsterPresent]

\* C1: every Response handed to the transport carries the id of the Request
\* it answers, no two Responses handed to the transport carry the same id, and
\* every notification the server emits carries no id.
C1_ResponsesCorrelate ==
  /\ \A k \in 1..Len(out) :
       IsResponse(out[k]) => last.op \in {"then", "catch"} /\ out[k].id = last.id
  /\ \A i \in 1..Len(reqs) : reqs[i].resp <= 1
  /\ \A k \in 1..Len(out) : IsNotification(out[k]) => "id" \notin DOMAIN out[k]

\* C2: a tools/call whose name is not in the list getAvailableTools returns for
\* the session's player at the moment of the call is rejected with "Tool not
\* found", runs no tool handler, emits nothing and leaves players, sessions and
\* rooms as they were when the call was dispatched.
C2_UnlistedToolFails ==
  (IsToolCall(ToolNameInputs) /\ ~Includes(last.avail, last.request.name)) =>
     /\ last.outcome = Thrown("Tool not found")
     /\ ~last.ran
     /\ players = last.resolved.players
     /\ sessions = last.resolved.sessions
     /\ rooms = last.resolved.rooms
     /\ out = <<>>
     /\ events = <<>>

\* a registered tool that is not listed was called and refused
C2_Witness ==
  /\ IsToolCall({"battle"})
  /\ ~Includes(last.avail, "battle")
  /\ last.outcome.kind = "throw"

\* C3: with a transport sender set, a tools/call of move, take or battle that
\* changes the caller's tool list hands a notifications/tools/list_changed to
\* the transport in the same step, and one that changes the caller's prompt
\* list hands a notifications/prompts/list_changed; after a move into a room
\* with a monster from a state whose list had no battle, the tools notification
\* was sent and tools/list includes battle.
C3_ListChangeIsNotified ==
  (IsToolCall({"move", "take", "battle"}) /\ last.resolved.transportSend) =>
     /\ getAvailableTools(last.resolved, Caller) # getAvailableTools(Store, Caller)
          => Notified("notifications/tools/list_changed")
     /\ getAvailablePrompts(last.resolved, Caller) # getAvailablePrompts(Store, Caller)
          => Notified("notifications/prompts/list_changed")
     /\ (/\ last.request.name = "move"
         /\ ~Includes(getAvailableTools(last.resolved, Caller), "battle")
         /\ Len(rooms[players[Caller].room].monsters) > 0)
          => /\ Notified("notifications/tools/list_changed")
             /\ Includes(handleToolsList(Store, last.request, last.sessionId)
                           .outcome.response.result.tools, "battle")

\* a move brought battle into the caller's tool list and was notified
C3_Witness ==
  /\ IsToolCall({"move"})
  /\ transportSend
  /\ ~Includes(getAvailableTools(last.resolved, Caller), "battle")
  /\ Includes(getAvailableTools(Store, Caller), "battle")
  /\ Notified("notifications/tools/list_changed")
  /\ Notified("notifications/prompts/list_changed")

\* the list the claim describes, from the current state
ExpectedTools(p) ==
  LET room == rooms[players[p].room] IN
  SelectSeq(<<"look", "inventory", "move", "take", "battle", "talk">>,
            LAMBDA t : CASE t = "move"   -> DOMAIN Exits[players[p].room] # {}
                         [] t = "take"   -> room.items # <<>>
                         [] t = "battle" -> room.monsters # <<>>
                         [] t = "talk"   -> samplingHandler # "none"
                         [] OTHER        -> TRUE)

\* C4: for every existing player getAvailableTools returns look, inventory,
\* then move iff the room has an exit, take iff the room holds an item, battle
\* iff the room holds a monster, talk iff a sampling handler is registered, in
\* this order; tools/list returns that list for the session's player.
C4_ToolListIsCurrent ==
  /\ \A p \in DOMAIN players :
       /\ players[p].room \in RoomIds
       /\ getAvailableTools(Store, p) = ExpectedTools(p)
  /\ (IsRequestStep /\ last.request.method = "tools/list") =>
       /\ last.outcome.kind = "result"
       /\ last.outcome.response.result.tools = ExpectedTools(sessions[last.sessionId].playerId)

\* tools/list returned all six tools
C4_Witness ==
  /\ IsRequestStep /\ last.request.method = "tools/list"
  /\ last.outcome.response.result.tools
       = <<"look", "inventory", "move", "take", "battle", "talk">>

\* C5: every request whose promise chain has run to its end had a Response
\* with its id handed to the transport.
C5_EveryRequestAnswered ==
  \A i \in 1..Len(reqs) : reqs[i].st = "done" => reqs[i].resp >= 1

\* C6: an initialize that supplies the id of an existing session, after an
\* earlier initialize (which declared sampling), succeeds and leaves the
\* Subject State reachable through that session id as it was before the call.
C6_InitializeIdempotent ==
  (/\ IsRequestStep /\ last.request.method = "initialize"
   /\ last.request.sessionId = SESSION_1234
   /\ SESSION_1234 \in DOMAIN last.resolved.sessions
   /\ last.resolved.clientCapabilities.sampling) =>
     /\ last.outcome.kind = "result"
     /\ SubjectState(Store, SESSION_1234) = SubjectState(last.resolved, SESSION_1234)

\* C7: a stored session keeps its id and its player id in every step.
C7_SessionsImmutable ==
  [][\A s \in DOMAIN sessions :
       /\ s \in DOMAIN sessions'
       /\ sessions'[s].id = sessions[s].id
       /\ sessions'[s].playerId = sessions[s].playerId]_vars

\* the state createSession gives a new player
DefaultPlayerState(playerId) ==
  [player_id |-> playerId, room |-> "entrance", inventory |-> <<>>,
   hasQuest |-> FALSE, monsterPresent |-> FALSE]

\* C8: createSession returns a Session whose id and player id were not stored
\* before, stores the default state for the new player, and leaves every
\* session and player state stored before unchanged.
C8_CreateSessionIsFresh ==
  [][last'.op = "createSession" =>
       /\ last'.session.id \notin DOMAIN sessions
       /\ last'.session.playerId \notin DOMAIN players
       /\ players'[last'.session.playerId] = DefaultPlayerState(last'.session.playerId)
       /\ \A p \in DOMAIN players : p \in DOMAIN players' /\ players'[p] = players[p]
       /\ \A s \in DOMAIN sessions : s \in DOMAIN sessions' /\ sessions'[s] = sessions[s]]_vars

\* C9: a request other than initialize and ping that names a session id that
\* is not in the registry is rejected with "Session not found" and no session
\* is put in its place.
C9_UnknownSessionRejected ==
  (/\ IsRequestStep /\ NeedsSession
   /\ last.request.sessionId # Undefined
   /\ last.created) =>
     /\ last.outcome = Thrown("Session not found")
     /\ last.sessionId = last.request.sessionId

\* the requests that need nothing but a session to succeed
SessionOnlyMethods == {"tools/list", "prompts/list", "resources/list", "prompts/get"}

\* C10: a request other than initialize and ping that supplies no session id
\* makes the dispatcher create a session; the session and its player state are
\* in the registry afterwards, the request is served with that session's id as
\* its context, it is not rejected for its session, and the methods that need
\* only a session succeed.
C10_DefaultSessionCreated ==
  (IsRequestStep /\ NeedsSession /\ last.request.sessionId = Undefined) =>
     /\ last.created
     /\ last.sessionId \in DOMAIN sessions
     /\ sessions[last.sessionId].id = last.sessionId
     /\ sessions[last.sessionId].playerId \in DOMAIN players
     /\ last.outcome # Thrown("Session not found")
     /\ last.outcome # Thrown("TypeError")
     /\ last.request.method \in SessionOnlyMethods => last.outcome.kind = "result"
     /\ last.request.method = "tools/list" =>
          last.outcome.response.result.tools
            = getAvailableTools(Store, sessions[last.sessionId].playerId)

\* a tools/list without a session id was served under a session created for it
C10_Witness ==
  /\ IsRequestStep /\ last.request.method = "tools/list"
  /\ last.request.sessionId = Undefined
  /\ last.created
  /\ last.outcome.kind = "result"
  /\ last.sessionId \in DOMAIN sessions

\* the result of the tools/call the last step handled
ToolResult == last.outcome.response.result

\* players, sessions and rooms are as the session block of the last request left them
StateAsDispatched ==
  /\ players = last.resolved.players
  /\ sessions = last.resolved.sessions
  /\ rooms = last.resolved.rooms

\* the caller's room has no exit in the direction of the move of the last step
MoveWithoutExit ==
  /\ IsToolCall({"move"})
  /\ Includes(last.avail, "move")
  /\ "direction" \in DOMAIN last.request.arguments
  /\ toLowerCase(last.request.arguments.direction)
       \notin DOMAIN Exits[last.resolved.players[Caller].room]

\* C11: a tools/call of move with a direction for which the caller's room has
\* no exit returns a success Response whose result has isError true, and leaves
\* players, sessions and rooms unchanged.
C11_NoExitMoveIsFlagged ==
  MoveWithoutExit =>
    /\ last.outcome.kind = "result"
    /\ "isError" \in DOMAIN ToolResult
    /\ ToolResult.isError
    /\ StateAsDispatched

\* a resources/read request for uri
ReadRequest(uri) == [BaseRequest(1, SESSION_1234, "resources/read") EXCEPT !.uri = uri]

CaughtHandlerFailure ==
  /\ last.op = "catch"
  /\ out[1].error.message # "send failed"

\* C13: when handleRequest rejects (unknown method, exception in a handler),
\* an error Response with the id of the Request is handed to the transport,
\* and the process stays alive to serve the requests that follow.
C13_FailureBecomesErrorResponse ==
  CaughtHandlerFailure =>
    /\ Len(out) = 1
    /\ IsResponse(out[1])
    /\ "error" \in DOMAIN out[1]
    /\ out[1].id = last.id
    /\ alive

\* C14: a failed transport send is dropped: the process stays alive, and no
\* message is handed to the transport in the place of the one whose send failed.
C14_SendFailureDropped ==
  /\ alive
  /\ last.op = "catch" => out[1].error.message # "send failed"

\* C15: for an incoming message without an id the server runs the handler of
\* its method (notifications/initialized pushes the initial lists), hands no
\* message to the transport that echoes the notification, and stays alive.
C15_NotificationHandledSilently ==
  last.op = "onNotification" =>
    /\ \A k \in 1..Len(out) : out[k].method # last.method
    /\ last.method = "notifications/initialized"
         => Notified("notifications/tools/list_changed")
    /\ alive

ListMethods == {"tools/list", "prompts/list", "resources/list"}

\* the last step handled a list request
IsListStep == IsRequestStep /\ last.request.method \in ListMethods

C17_ListHasNoEffect ==
  [][(last'.op = "handleRequest" /\ last'.request.method \in ListMethods)
       => /\ players' = players
          /\ sessions' = sessions
          /\ rooms' = rooms
          /\ events' = <<>>]_vars

\* C18: ping, with any session id or none and with or without stored
\* sessions, returns an empty result with the id of the request, creates no
\* session, changes no state and hands nothing to the transport.
C18_PingHasNoEffect ==
  [][(last'.op = "handleRequest" /\ last'.request.method = "ping")
       => /\ last'.outcome = Resolved(last'.request.id, [empty |-> TRUE])
          /\ ~last'.created
          /\ players' = players
          /\ sessions' = sessions
          /\ rooms' = rooms
          /\ clientCapabilities' = clientCapabilities
          /\ samplingHandler' = samplingHandler
          /\ timers' = timers
          /\ out' = <<>>
          /\ events' = <<>>]_vars

\* a ping was answered while no session is stored
C18_Witness ==
  /\ IsRequestStep /\ last.request.method = "ping"
  /\ last.request.sessionId = Undefined
  /\ last.outcome.kind = "result"
  /\ DOMAIN sessions = {}

ListChangedMethods ==
  {"notifications/tools/list_changed", "notifications/prompts/list_changed"}

\* C19: a list_changed notification handed to the transport carries no
\* params: it holds no list contents.
C19_ListChangedHasNoParams ==
  \A k \in 1..Len(out) :
    (IsNotification(out[k]) /\ out[k].method \in ListChangedMethods)
      => "params" \notin DOMAIN out[k]

\* the inputSchema of the registered tools: the required arguments, and the
\* enum of move's direction
RequiredArguments(name) ==
  CASE name = "move"   -> {"direction"}
    [] name = "take"   -> {"item"}
    [] name = "battle" -> {"monster"}
    [] name = "talk"   -> {"target", "message"}
    [] OTHER           -> {}

DirectionEnum == {"north", "south", "east", "west"}

\* the arguments do not satisfy the tool's inputSchema
ViolatesSchema(name, arguments) ==
  \/ \E a \in RequiredArguments(name) : a \notin DOMAIN arguments
  \/ /\ name = "move"
     /\ "direction" \in DOMAIN arguments
     /\ arguments.direction \notin DirectionEnum

\* C20: a tools/call of a listed tool whose arguments violate the tool's
\* inputSchema is answered with a rejection or with a result that has isError
\* true, and leaves players, sessions and rooms unchanged.
C20_SchemaViolationIsFailure ==
  (/\ IsToolCall(RegisteredTools)
   /\ Includes(last.avail, last.request.name)
   /\ ViolatesSchema(last.request.name, last.request.arguments)) =>
     /\ last.outcome.kind \in {"throw", "result"}
     /\ last.outcome.kind = "result" =>
          "isError" \in DOMAIN ToolResult /\ ToolResult.isError
     /\ StateAsDispatched

(***************************************************************************)
(* The StateService called directly: every mutator with every player id,   *)
(* known or not, and the callback of the timer addItemToInventory sets.    *)
(***************************************************************************)
\* player ids: the two createSession has made, and one it never makes
PlayerInputs == {PlayerId(0), PlayerId(1), ALL_PLAYERS}

\* directions: exits of the rooms and a direction no room has
MoveInputs == {"north", "east", "up"}

\* rooms with and without a quest or a monster, and an unknown room
RoomInputs == {"hallway", "chamber", "nowhere"}

\* an item of a room, and the quest item, which no room holds
ItemInputs == {"key", "ancient_artifact"}

\* (roomId, itemId): an item of the room, an item of another room, an unknown room
RoomItemInputs == {<<"hallway", "key">>, <<"hallway", "torch">>, <<"nowhere", "key">>}

MutatorNames ==
  {"movePlayer", "updatePlayerRoom", "addItemToInventory", "acceptQuest", "battle",
   "removeItemFromRoom"}

\* the call returned r: the store becomes r.st
Returned(name, playerId, arg, r) ==
  /\ Commit(r.st)
  /\ last' = [op |-> name, playerId |-> playerId, arg |-> arg, ok |-> r.ok]
  /\ UNCHANGED <<clock, reqs, sampling, alive, adapter>>

CallMovePlayer ==
  /\ alive
  /\ \E playerId \in PlayerInputs : \E direction \in MoveInputs :
       Returned("movePlayer", playerId, direction, movePlayer(Store, playerId, direction))

CallUpdatePlayerRoom ==
  /\ alive
  /\ \E playerId \in PlayerInputs : \E roomId \in RoomInputs :
       Returned("updatePlayerRoom", playerId, roomId,
                updatePlayerRoom(Store, playerId, roomId))

CallAddItemToInventory ==
  /\ alive
  /\ \E playerId \in PlayerInputs : \E itemId \in ItemInputs :
       Returned("addItemToInventory", playerId, itemId,
                addItemToInventory(Store, playerId, itemId))

CallAcceptQuest ==
  /\ alive
  /\ \E playerId \in PlayerInputs :
       Returned("acceptQuest", playerId, NoKey, acceptQuest(Store, playerId))

CallBattle ==
  /\ alive
  /\ \E playerId \in PlayerInputs : \E playerWins \in BOOLEAN :
       Returned("battle", playerId, NoKey,
                battle(Store, playerId, [playerWins |-> playerWins]))

CallRemoveItemFromRoom ==
  /\ alive
  /\ \E c \in RoomItemInputs :
       Returned("removeItemFromRoom", c[1], c[2], removeItemFromRoom(Store, c[1], c[2]))

\* the callback of setTimeout(() => this.emit('TOOLS_CHANGED', { playerId }, 1))
TimerFires ==
  /\ alive
  /\ Len(timers) > 0
  /\ Commit(emit([Store EXCEPT !.timers = Tail(@)], "TOOLS_CHANGED", Head(timers)))
  /\ last' = [op |-> "timer", playerId |-> Head(timers)]
  /\ UNCHANGED <<clock, reqs, sampling, alive, adapter>>

\* createSession() was called at two times: two players exist, the session is
\* the second player's
InitState ==
  LET st0 == [clock |-> 0, players |-> EmptyMap, sessions |-> EmptyMap,
              rooms |-> initialRooms, transportSend |-> FALSE,
              clientCapabilities |-> [sampling |-> FALSE], samplingHandler |-> "none",
              timers |-> <<>>, prompts |-> RegisteredPrompts, out |-> <<>>,
              events |-> <<>>]
      st1 == [createSession(st0).st EXCEPT !.clock = 1]
      st2 == createSession(st1).st
  IN /\ clock = st2.clock
     /\ players = st2.players
     /\ sessions = st2.sessions
     /\ rooms = st2.rooms
     /\ transportSend = st2.transportSend
     /\ clientCapabilities = st2.clientCapabilities
     /\ samplingHandler = st2.samplingHandler
     /\ timers = st2.timers
     /\ out = st2.out
     /\ events = st2.events
     /\ reqs = <<>>
     /\ sampling = <<>>
     /\ prompts = st2.prompts
     /\ adapter = NoInput
     /\ last = [op |-> "init"]
     /\ alive = TRUE

NextState ==
  \/ CallMovePlayer
  \/ CallUpdatePlayerRoom
  \/ CallAddItemToInventory
  \/ CallAcceptQuest
  \/ CallBattle
  \/ CallRemoveItemFromRoom
  \/ TimerFires

SpecState == InitState /\ [][NextState]_vars

(***************************************************************************)
(* Properties of the StateService mutators.                                *)
(***************************************************************************)
\* the mutator call name(playerId, arg) asks, in the current state, for a
\* transition that is not valid; removeItemFromRoom takes (roomId, itemId)
InvalidTransition(name, playerId, arg) ==
  IF name = "removeItemFromRoom"
  THEN playerId \notin RoomIds \/ ~Includes(rooms[playerId].items, arg)
  ELSE \/ playerId \notin DOMAIN players
       \/ /\ name = "movePlayer"
          /\ arg \notin DOMAIN Exits[players[playerId].room]
       \/ /\ name = "updatePlayerRoom"
          /\ arg \notin RoomIds
       \/ /\ name = "addItemToInventory"
          /\ ~Includes(rooms[players[playerId].room].items, arg)
       \/ /\ name = "acceptQuest"
          /\ ~RoomHasQuest[players[playerId].room] \/ players[playerId].hasQuest
       \/ /\ name = "battle"
          /\ \/ ~players[playerId].monsterPresent
             \/ Len(rooms[players[playerId].room].monsters) = 0

\* C21: a mutator called with an invalid transition (unknown player, no such
\* exit or room, item not in the player's room, no quest in the room or quest
\* already accepted, no monster present) returns its rejection value, leaves
\* every player, session and room as it was, emits no event and sets no timer
C21_InvalidTransitionRejected ==
  [][(last'.op \in MutatorNames /\ InvalidTransition(last'.op, last'.playerId, last'.arg))
       => /\ ~last'.ok
          /\ players' = players
          /\ sessions' = sessions
          /\ rooms' = rooms
          /\ timers' = timers
          /\ events' = <<>>
          /\ out' = <<>>]_vars

\* acceptQuest was rejected for a player who holds the quest already, in the
\* room that offers it
C21_Witness ==
  /\ last.op = "acceptQuest"
  /\ ~last.ok
  /\ last.playerId \in DOMAIN players
  /\ players[last.playerId].hasQuest
  /\ RoomHasQuest[players[last.playerId].room]

(***************************************************************************)
(* The transport sampling handler (setSamplingTransport).  Each call makes *)
(* a promise with a request id, a 'sampling-response' listener and a       *)
(* timeout; sampling holds, per call, the id, whether the listener is      *)
(* registered, whether the timeout is armed, the state of the promise and  *)
(* the state of the send of the request.                                   *)
(***************************************************************************)
MaxSampling == 2

\* the values of Math.random().toString(36).substr(2, 9) the model draws
RandomSuffixes == {0, 1}

\* `sampling_${Date.now()}_${random}`
requestId(st, random) == [k |-> "sampling", n |-> st.clock, r |-> random]

\* the promise settles once: resolve and reject of a settled promise do nothing
settle(state, to) == IF state = "pending" THEN to ELSE state

\* what the call of the handler sets up before it awaits the send
newSamplingRequest(st, random) ==
  [id |-> requestId(st, random), listener |-> TRUE, timeout |-> TRUE,
   state |-> "pending", send |-> "inflight"]

\* responseHandler(response)
responseHandler(entry, response) ==
  IF response.id = entry.id
  THEN [entry EXCEPT !.listener = FALSE,
                     !.state = settle(@, IF response.error THEN "rejected" ELSE "resolved")]
  ELSE entry

\* handleSamplingResponse(response): emit runs the registered listeners
handleSamplingResponse(smp, response) ==
  [i \in DOMAIN smp |-> IF smp[i].listener THEN responseHandler(smp[i], response)
                        ELSE smp[i]]

\* a timeout callback that forgets to reject
timeoutUnregisters(entry) == [entry EXCEPT !.listener = FALSE, !.timeout = FALSE]

\* the callback of the 30 second timeout
timeoutCallback(entry) ==
  [entry EXCEPT !.listener = FALSE, !.timeout = FALSE, !.state = settle(@, "rejected")]

\* the catch around await transportSend(samplingRequest)
sendFailed(entry) ==
  [entry EXCEPT !.listener = FALSE, !.timeout = FALSE, !.send = "failed",
                !.state = settle(@, "rejected")]

\* the store main() leaves: the server is constructed and its sender is set
mainStore ==
  publishInitialLists([
    clock |-> 0, players |-> EmptyMap, sessions |-> EmptyMap, rooms |-> initialRooms,
    transportSend |-> TRUE, clientCapabilities |-> [sampling |-> FALSE],
    samplingHandler |-> "none", timers |-> <<>>, prompts |-> RegisteredPrompts,
    out |-> <<>>, events |-> <<>>])

\* the store after the client's initialize, which declares sampling, and its
\* notifications/initialized were handled: the transport handler is set
samplingReadyStore ==
  LET env == [playerWins |-> FALSE, sendOk |-> TRUE]
      st1 == handleRequest(mainStore,
               withSessionId([BaseRequest(1, Undefined, "initialize")
                                EXCEPT !.sampling = TRUE]), env).st
      st2 == handleRequest(st1,
               withSessionId(BaseRequest(2, Undefined, "notifications/initialized")),
               env).st
  IN [st2 EXCEPT !.out = <<>>, !.events = <<>>]

InitSampling ==
  /\ clock = samplingReadyStore.clock
  /\ players = samplingReadyStore.players
  /\ sessions = samplingReadyStore.sessions
  /\ rooms = samplingReadyStore.rooms
  /\ transportSend = samplingReadyStore.transportSend
  /\ clientCapabilities = samplingReadyStore.clientCapabilities
  /\ samplingHandler = samplingReadyStore.samplingHandler
  /\ timers = samplingReadyStore.timers
  /\ out = <<>>
  /\ events = <<>>
  /\ reqs = <<>>
  /\ sampling = <<>>
  /\ prompts = samplingReadyStore.prompts
  /\ adapter = NoInput
  /\ last = [op |-> "init"]
  /\ alive = TRUE

\* samplingHandler(request): the request is handed to the transport
CallSamplingHandler ==
  /\ alive
  /\ samplingHandler = "transport"
  /\ Len(sampling) < MaxSampling
  /\ \E random \in RandomSuffixes :
       /\ sampling' = Append(sampling, newSamplingRequest(Store, random))
       /\ Commit([Store EXCEPT !.out =
            <<[samplingRequest(Store) EXCEPT !.id = requestId(Store, random)]>>])
       /\ last' = [op |-> "samplingHandler", id |-> requestId(Store, random)]
  /\ UNCHANGED <<clock, reqs, alive, adapter>>

\* the promise of transportSend(samplingRequest) settles
SendSettles ==
  /\ alive
  /\ \E i \in 1..Len(sampling) : \E ok \in BOOLEAN :
       /\ sampling[i].send = "inflight"
       /\ sampling' = [sampling EXCEPT ![i] = IF ok THEN [@ EXCEPT !.send = "ok"]
                                                ELSE sendFailed(@)]
       /\ last' = [op |-> "sendSettles", index |-> i, ok |-> ok]
  /\ Commit(Store)
  /\ UNCHANGED <<clock, reqs, alive, adapter>>

\* the responses a client can send: to a request that was issued, or to none
ResponseInputs ==
  {[id |-> id, error |-> e] :
     id \in {sampling[i].id : i \in 1..Len(sampling)} \cup {requestId(Store, 2)},
     e \in BOOLEAN}

\* server.handleSamplingResponse(response)
CallHandleSamplingResponse ==
  /\ alive
  /\ \E response \in ResponseInputs :
       /\ sampling' = handleSamplingResponse(sampling, response)
       /\ last' = [op |-> "handleSamplingResponse", response |-> response]
  /\ Commit(Store)
  /\ UNCHANGED <<clock, reqs, alive, adapter>>

\* the timeout of the i-th sampling request fires
TimeoutFires(i) ==
  /\ alive
  /\ i \in 1..Len(sampling)
  /\ sampling[i].timeout
  /\ sampling' = [sampling EXCEPT ![i] = timeoutCallback(@)]
  /\ last' = [op |-> "timeout", index |-> i]
  /\ Commit(Store)
  /\ UNCHANGED <<clock, reqs, alive, adapter>>

SomeTimeoutFires == \E i \in 1..MaxSampling : TimeoutFires(i)

NextSampling ==
  \/ CallSamplingHandler
  \/ SendSettles
  \/ CallHandleSamplingResponse
  \/ SomeTimeoutFires

\* a timeout that is armed fires
SpecSampling ==
  /\ InitSampling
  /\ [][NextSampling]_vars
  /\ \A i \in 1..MaxSampling : WF_vars(TimeoutFires(i))

IsSettled(i) == i \in 1..Len(sampling) /\ sampling[i].state # "pending"

\* C22: every sampling request the transport handler issued eventually
\* settles; a response with its id resolves it, or rejects it when it
\* carries an error; a failed send and the timeout reject it; a response with
\* another id leaves it as it is; the listener of a settled request is not
\* registered
C22_SamplingRequestSettles ==
  /\ \A i \in 1..MaxSampling :
       (i \in 1..Len(sampling) /\ sampling[i].state = "pending") ~> IsSettled(i)
  /\ [](\A i \in 1..Len(sampling) : IsSettled(i) => ~sampling[i].listener)
  /\ [][\A i \in 1..Len(sampling) :
          sampling[i].state = "pending" =>
            /\ last'.op = "handleSamplingResponse" =>
                 sampling'[i].state =
                   IF last'.response.id # sampling[i].id THEN "pending"
                   ELSE IF last'.response.error THEN "rejected" ELSE "resolved"
            /\ last'.op = "timeout" /\ last'.index = i => sampling'[i].state = "rejected"
            /\ last'.op = "sendSettles" /\ last'.index = i /\ ~last'.ok
                 => sampling'[i].state = "rejected"]_vars

\* one request was resolved by its response while another one, left without
\* a response, was rejected by its timeout
C22_Witness ==
  /\ Len(sampling) = 2
  /\ sampling[1].state = "resolved"
  /\ sampling[2].state = "rejected"
  /\ sampling[2].send = "ok"
  /\ ~sampling[1].listener
  /\ ~sampling[2].listener
  /\ sampling[1].id # sampling[2].id

\* the prompts player p is to be offered, in registration order
ExpectedPrompts(p) ==
  <<"room_description", "welcome", "inventory_prompt">>
  \o (IF RoomHasQuest[players[p].room] /\ ~players[p].hasQuest
      THEN <<"quest_prompt">> ELSE <<>>)
  \o (IF players[p].monsterPresent /\ Len(rooms[players[p].room].monsters) >= 1
      THEN <<"battle_prompt">> ELSE <<>>)

C24_BattleListedImpliesFlag ==
  \A p \in DOMAIN players :
    Includes(getAvailableTools(Store, p), "battle") => players[p].monsterPresent

\* a player moved into a room with a monster: battle is listed and the flag is set
C24_Witness ==
  /\ IsToolCall({"move"})
  /\ Caller \in DOMAIN players
  /\ Includes(getAvailableTools(Store, Caller), "battle")
  /\ players[Caller].monsterPresent

\* the take of the last step named an item that was in the caller's room
TakeOfPresentItem ==
  /\ IsToolCall({"take"})
  /\ Includes(last.avail, "take")
  /\ "item" \in DOMAIN last.request.arguments
  /\ Includes(last.resolved.rooms[last.resolved.players[Caller].room].items,
              last.request.arguments.item)

\* C25: a tools/call of take that names an item present in the caller's room
\* puts the item into the caller's inventory and removes it from the room, and
\* when the room has no item left take is not in the caller's tool list
C25_TakeMovesItem ==
  TakeOfPresentItem =>
    /\ Includes(players[Caller].inventory, last.request.arguments.item)
    /\ ~Includes(rooms[players[Caller].room].items, last.request.arguments.item)
    /\ Len(rooms[players[Caller].room].items) = 0
         => ~Includes(getAvailableTools(Store, Caller), "take")

\* C26: while the capabilities of the last initialize declare no sampling,
\* talk is in no player's tool list, and a tools/call of talk fails: its
\* promise is rejected or its result has isError true
C26_TalkNeedsSampling ==
  ~clientCapabilities.sampling =>
    /\ \A p \in DOMAIN players : ~Includes(getAvailableTools(Store, p), "talk")
    /\ IsToolCall({"talk"}) =>
         \/ last.outcome.kind = "throw"
         \/ /\ last.outcome.kind = "result"
            /\ "isError" \in DOMAIN ToolResult
            /\ ToolResult.isError

\* the mutators that act for a player
PlayerMutators == MutatorNames \ {"removeItemFromRoom"}

\* C27: a mutator call, or a timer callback, made for one player leaves the
\* state record (room, inventory, hasQuest, monsterPresent) of every other
\* player as it was
C27_PlayersAreIndependent ==
  [][(last'.op \in PlayerMutators \cup {"timer"})
       => /\ DOMAIN players' = DOMAIN players
          /\ \A q \in DOMAIN players : q # last'.playerId => players'[q] = players[q]]_vars

\* a player won a battle in a room where another player stands, whose flag
\* still tells of the monster
C27_Witness ==
  /\ last.op = "battle"
  /\ last.ok
  /\ \E q \in DOMAIN players :
       /\ q # last.playerId
       /\ players[q].room = players[last.playerId].room
       /\ players[q].monsterPresent
       /\ ~players[last.playerId].monsterPresent

\* every session refers to a stored player, no two sessions to the same one,
\* and every player stands in a room of the world
RegistryWellFormed ==
  /\ \A s \in DOMAIN sessions : sessions[s].playerId \in DOMAIN players
  /\ \A s, t \in DOMAIN sessions : s # t => sessions[s].playerId # sessions[t].playerId
  /\ \A p \in DOMAIN players : players[p].room \in RoomIds

\* C28: the registry of sessions and players is well formed in every state,
\* and no step removes a session id or a player id from it
C28_RegistryWellFormed ==
  /\ []RegistryWellFormed
  /\ [][/\ DOMAIN sessions \subseteq DOMAIN sessions'
        /\ DOMAIN players \subseteq DOMAIN players']_vars

\* two players were made, and one of them has left the room where players start
C28_Witness ==
  /\ Cardinality(DOMAIN players) = 2
  /\ DOMAIN sessions # {}
  /\ \E p \in DOMAIN players : players[p].room # "entrance"
  /\ \E p \in DOMAIN players : \A s \in DOMAIN sessions : sessions[s].playerId # p

(***************************************************************************)
(* The message loop of a client that declared sampling: tool calls arrive  *)
(* while earlier ones are pending, a talk among them suspended on its      *)
(* sampling request.                                                       *)
(***************************************************************************)
\* tools/call of the tools that change the state and of the tool that suspends
ToolMessageInputs(id) ==
  {[BaseRequest(id, Undefined, "tools/call") EXCEPT !.name = c[1], !.arguments = c[2]] :
     c \in {<<"move", [direction |-> "north"]>>, <<"move", [direction |-> "east"]>>,
            <<"take", [item |-> "key"]>>,
            <<"battle", [monster |-> "Cave Goblin"]>>,
            <<"talk", [target |-> "goblin", message |-> "hello"]>>}}

InitTalk ==
  /\ clock = samplingReadyStore.clock
  /\ players = samplingReadyStore.players
  /\ sessions = samplingReadyStore.sessions
  /\ rooms = samplingReadyStore.rooms
  /\ transportSend = samplingReadyStore.transportSend
  /\ clientCapabilities = samplingReadyStore.clientCapabilities
  /\ samplingHandler = samplingReadyStore.samplingHandler
  /\ timers = samplingReadyStore.timers
  /\ out = <<>>
  /\ events = <<>>
  /\ reqs = <<>>
  /\ sampling = <<>>
  /\ prompts = samplingReadyStore.prompts
  /\ adapter = NoInput
  /\ last = [op |-> "main"]
  /\ alive = TRUE

\* transport.onMessage with a tools/call
OnToolCall ==
  /\ alive
  /\ Len(reqs) < MaxRequests
  /\ \E request \in ToolMessageInputs(Len(reqs) + 1) :
     \E env \in EnvInputs(Store, request) :
       Submitted(request, env, handleRequest(Store, withSessionId(request), env))
  /\ UNCHANGED <<clock, sampling, alive, adapter>>

\* the message a client sends to answer a sampling request: it carries the
\* id of the request and a result, and no method
samplingReply(st) ==
  [BaseRequest(samplingRequest(st).id, Undefined, "undefined") EXCEPT !.name = "result"]

\* transport.onMessage with the client's answer to the sampling request of a
\* suspended talk: the message has an id, so it goes to handleRequest
OnSamplingReply ==
  /\ alive
  /\ Len(reqs) < MaxRequests
  /\ \E i \in 1..Len(reqs) : reqs[i].st = "suspended"
  /\ Submitted(samplingReply(Store), [playerWins |-> FALSE, sendOk |-> TRUE],
               handleRequest(Store, withSessionId(samplingReply(Store)),
                             [playerWins |-> FALSE, sendOk |-> TRUE]))
  /\ UNCHANGED <<clock, sampling, alive, adapter>>

NextTalk ==
  \/ OnToolCall
  \/ OnSamplingReply
  \/ SamplingTimeout
  \/ Then
  \/ Catch

SpecTalk == InitTalk /\ [][NextTalk]_vars

\* C29: whatever the interleaving of pending requests, a step that changes a
\* player or a room is the step in which a tools/call was received: the tool
\* was found available in the state that step started from, and the same step
\* checked the preconditions and made the change; no step that resumes a
\* suspended handler changes a player or a room
C29_MutationIsAtomic ==
  [][(players' # players \/ rooms' # rooms)
       => /\ last'.op = "onRequest"
          /\ last'.request.method = "tools/call"
          /\ Includes(last'.avail, last'.request.name)
          /\ last'.resolved.players = players
          /\ last'.resolved.rooms = rooms
          /\ reqs'[Len(reqs')].st = "settled"]_vars

\* a move changed the caller's room while a talk received earlier is
\* suspended on its sampling request
C29_Witness ==
  /\ IsToolCall({"move"})
  /\ last.op = "onRequest"
  /\ players[Caller].room # last.resolved.players[Caller].room
  /\ \E i \in 1..Len(reqs) : reqs[i].st = "suspended"

\* the step emitted event for playerId, at once or through a timer it set
Emitted(event, playerId) ==
  \/ \E k \in 1..Len(events') :
       events'[k] = [event |-> event, playerId |-> playerId]
  \/ /\ event = "TOOLS_CHANGED"
     /\ timers' = Append(timers, playerId)

\* C30: a successful call of movePlayer, updatePlayerRoom, addItemToInventory,
\* acceptQuest or battle that changes the player's available tools emits
\* TOOLS_CHANGED for that player, at once or deferred, and one that changes the
\* player's available prompts emits PROMPTS_CHANGED for that player
C30_ListChangeIsEmitted ==
  [][(last'.op \in PlayerMutators /\ last'.ok)
       => /\ getAvailableTools(Store', last'.playerId)
               # getAvailableTools(Store, last'.playerId)
             => Emitted("TOOLS_CHANGED", last'.playerId)
          /\ getAvailablePrompts(Store', last'.playerId)
               # getAvailablePrompts(Store, last'.playerId)
             => Emitted("PROMPTS_CHANGED", last'.playerId)]_vars

\* C31: the client's answer to a sampling request, arriving through
\* handleRequest, settles a suspended sampling call with the reply's result
\* and is itself answered with no Response: handleRequest resolves to null
C31_SamplingReplySettlesCall ==
  [][(last'.op = "onRequest" /\ last'.request = withSessionId(samplingReply(Store)))
       => /\ last'.outcome.kind = "null"
          /\ \E i \in 1..Len(reqs) :
               /\ reqs[i].st = "suspended"
               /\ reqs'[i].st = "settled"
               /\ reqs'[i].outcome.kind = "result"]_vars

\* the tools/list_changed notifications handed to the transport by the last step
ToolsNotifications == SelectSeq(out, LAMBDA m : m.method = "notifications/tools/list_changed")

\* C32: an initialize handled while a sender is set hands a tools list_changed
\* notification to the transport, and the list it carries is the list
\* tools/list returns, in the state initialize left, for the session it made
C32_InitializeNotifiesSessionTools ==
  (IsRequestStep /\ last.request.method = "initialize" /\ transportSend)
    => /\ Len(ToolsNotifications) > 0
       /\ \A k \in 1..Len(ToolsNotifications) :
            ToolsNotifications[k].params.tools
              = handleToolsList(Store, last.request, last.outcome.response.result.session.id)
                  .outcome.response.result.tools

\* the last step read mud://player/status for a session whose player exists
StatusRead ==
  /\ IsRequestStep
  /\ last.request.method = "resources/read"
  /\ last.request.uri = "mud://player/status"
  /\ getSession(Store, last.sessionId) # Undefined
  /\ Caller \in DOMAIN players

\* C33: resources/read of mud://player/status for a session whose player
\* exists returns the current room, inventory, quest flag and monster flag of
\* that player, never the fallback text
C33_StatusReadIsCurrent ==
  StatusRead =>
    /\ last.outcome.kind = "result"
    /\ last.outcome.response.result.contents.text = statusText(players[Caller])

\* C35: after removePrompt(name) with a sender set, a prompts list_changed
\* notification was handed to the transport and no player's prompt list
\* holds name
C35_RemovePromptIsNotified ==
  (last.op = "removePrompt" /\ transportSend)
    => /\ Notified("notifications/prompts/list_changed")
       /\ \A p \in DOMAIN players : ~Includes(getAvailablePrompts(Store, p), last.name)

\* the events of one kind emitted by the last step, in order
EventsOf(event) == SelectSeq(events, LAMBDA e : e.event = event)

\* the notifications of one method handed to the transport by the last step
NotificationsOf(method) ==
  SelectSeq(out, LAMBDA m : IsNotification(m) /\ m.method = method)

\* the last step published the initial lists, which notifies without an event
PublishedInitialLists ==
  \/ last.op = "setTransportSend"
  \/ IsRequestStep /\ last.request.method = "notifications/initialized"

\* C34: while a sender is set, the tools notifications of a step correspond
\* one to one with its TOOLS_CHANGED events, each carrying the tool list of
\* the event's player, and the prompts notifications with its PROMPTS_CHANGED
\* events
C34_OneNotificationPerEvent ==
  (transportSend /\ ~PublishedInitialLists)
    => /\ Len(NotificationsOf("notifications/tools/list_changed"))
            = Len(EventsOf("TOOLS_CHANGED"))
       /\ \A k \in 1..Len(EventsOf("TOOLS_CHANGED")) :
            k <= Len(NotificationsOf("notifications/tools/list_changed"))
              => NotificationsOf("notifications/tools/list_changed")[k].params.tools
                   = getAvailableTools(Store, EventsOf("TOOLS_CHANGED")[k].playerId)
       /\ Len(NotificationsOf("notifications/prompts/list_changed"))
            = Len(EventsOf("PROMPTS_CHANGED"))

\* the move of the last step named a direction that is an exit of the
\* caller's room
MoveAlongExit ==
  /\ IsToolCall({"move"})
  /\ "direction" \in DOMAIN last.request.arguments
  /\ toLowerCase(last.request.arguments.direction)
       \in DOMAIN Exits[last.resolved.players[Caller].room]

\* the room the exit taken by the move of the last step leads to
ExitTarget ==
  Exits[last.resolved.players[Caller].room][toLowerCase(last.request.arguments.direction)]

\* C36: a tools/call of move along an exit of the caller's room puts the caller
\* into the exit's target room, sets monsterPresent to whether that room holds
\* a monster, leaves inventories, quest flags, the other players and the world
\* as they were, and returns a result that is not error-flagged
C36_MoveFollowsExit ==
  MoveAlongExit =>
    /\ players[Caller].room = ExitTarget
    /\ players[Caller].monsterPresent = (Len(rooms[ExitTarget].monsters) > 0)
    /\ players[Caller].inventory = last.resolved.players[Caller].inventory
    /\ players[Caller].hasQuest = last.resolved.players[Caller].hasQuest
    /\ \A p \in DOMAIN players \ {Caller} : players[p] = last.resolved.players[p]
    /\ DOMAIN players = DOMAIN last.resolved.players
    /\ rooms = last.resolved.rooms
    /\ last.outcome.kind = "result"
    /\ ~("isError" \in DOMAIN ToolResult /\ ToolResult.isError)

\* a move along an exit took the caller into a room that holds a monster
C36_Witness ==
  /\ MoveAlongExit
  /\ players[Caller].room # last.resolved.players[Caller].room
  /\ players[Caller].monsterPresent
  /\ ~last.resolved.players[Caller].monsterPresent

\* the monster id the battle of the last step named
NamedMonster == FindIdByName(MonsterKeys, MonsterName, last.request.arguments.monster)

\* the room the caller was in when the handler of the last step started
CallerRoom == last.resolved.players[Caller].room

\* the battle of the last step named a monster that was in the caller's room
BattleOfPresentMonster ==
  /\ IsToolCall({"battle"})
  /\ "monster" \in DOMAIN last.request.arguments
  /\ NamedMonster # NoKey
  /\ Includes(last.resolved.rooms[CallerRoom].monsters, NamedMonster)

\* C37: a tools/call of battle against a monster in the caller's room either is
\* lost, leaving players, sessions and rooms unchanged and emitting no event, or
\* is won, removing exactly the named monster from the caller's room, setting
\* the caller's monsterPresent to whether the room still holds a monster, and
\* leaving battle out of the caller's tool list
C37_BattleHasTwoOutcomes ==
  BattleOfPresentMonster =>
    /\ last.outcome.kind = "result"
    /\ ~last.env.playerWins
         => /\ StateAsDispatched
            /\ events = <<>>
    /\ last.env.playerWins
         => /\ rooms = [last.resolved.rooms EXCEPT
                          ![CallerRoom].monsters = FilterOut(@, NamedMonster)]
            /\ players[Caller].monsterPresent = (Len(rooms[CallerRoom].monsters) > 0)
            /\ players[Caller].room = CallerRoom
            /\ ~Includes(getAvailableTools(Store, Caller), "battle")

\* a battle against the monster of the caller's room was won
C37_Witness ==
  /\ BattleOfPresentMonster
  /\ last.env.playerWins
  /\ ~Includes(rooms[CallerRoom].monsters, NamedMonster)
  /\ ~players[Caller].monsterPresent

\* a battle against the monster of the caller's room was lost
C37_WitnessLoss ==
  /\ BattleOfPresentMonster
  /\ ~last.env.playerWins
  /\ players[Caller].monsterPresent

\* the item ids of the initial world
InitialItems ==
  UNION {{initialRooms[r].items[k] : k \in 1..Len(initialRooms[r].items)} :
           r \in DOMAIN initialRooms}

\* the number of places that hold itemId: positions of room item lists and of
\* player inventories
Holdings(itemId) ==
  Cardinality({<<r, k>> \in (DOMAIN rooms) \X (1..Cardinality(InitialItems)) :
                 k <= Len(rooms[r].items) /\ rooms[r].items[k] = itemId})
  + Cardinality({<<p, k>> \in (DOMAIN players) \X (1..Cardinality(InitialItems)) :
                   k <= Len(players[p].inventory) /\ players[p].inventory[k] = itemId})

C39_FlagMatchesRoom ==
  \A p \in DOMAIN players :
    players[p].room \in DOMAIN rooms
      => players[p].monsterPresent = (Len(rooms[players[p].room].monsters) > 0)

(***************************************************************************)
(* TransportAdapter.handleData: the framing of stdin into messages.  A     *)
(* chunk is a sequence of bytes; the byte values the model uses are the    *)
(* ASCII characters below and the two bytes of one two-byte character.     *)
(***************************************************************************)
LF == "\n"
SPACE == " "
QUOTE == "quote"
\* the bytes C3 A9 encode the character e-acute
LEAD == "C3"
CONT == "A9"
EACUTE == "e-acute"
\* U+FFFD, which the decoder puts for a byte sequence that is not complete
REPLACEMENT == "U+FFFD"

RECURSIVE toString(_)
\* chunk.toString('utf8'): each chunk is decoded on its own
toString(chunk) ==
  IF chunk = <<>> THEN <<>>
  ELSE IF Head(chunk) = LEAD
  THEN IF Len(chunk) >= 2 /\ chunk[2] = CONT
       THEN <<EACUTE>> \o toString(Tail(Tail(chunk)))
       ELSE <<REPLACEMENT>> \o toString(Tail(chunk))
  ELSE IF Head(chunk) = CONT THEN <<REPLACEMENT>> \o toString(Tail(chunk))
  ELSE <<Head(chunk)>> \o toString(Tail(chunk))

\* s.indexOf('\n'), counted from 1; 0 when s holds no newline
indexOf(s, c) ==
  IF \E k \in 1..Len(s) : s[k] = c
  THEN CHOOSE k \in 1..Len(s) : s[k] = c /\ \A j \in 1..(k - 1) : s[j] # c
  ELSE 0

RECURSIVE trim(_)
\* String.prototype.trim
trim(s) ==
  IF s = <<>> THEN s
  ELSE IF Head(s) = SPACE THEN trim(Tail(s))
  ELSE IF s[Len(s)] = SPACE THEN trim(SubSeq(s, 1, Len(s) - 1))
  ELSE s

\* what JSON.parse throws on a text that is not JSON
SyntaxError == [threw |-> "SyntaxError"]

\* JSON.parse on the texts of the model: a number written with the digit 1, or
\* a string between quotes; white space around the value is allowed
parse(text) ==
  LET t == trim(text) IN
  IF t # <<>> /\ \A k \in 1..Len(t) : t[k] = "1" THEN [number |-> t]
  ELSE IF Len(t) >= 2 /\ t[1] = QUOTE /\ t[Len(t)] = QUOTE
          /\ \A k \in 2..(Len(t) - 1) : t[k] # QUOTE
  THEN [string |-> SubSeq(t, 2, Len(t) - 1)]
  ELSE SyntaxError

RECURSIVE drain(_)
\* the while loop of handleData: takes the lines off the front of messageBuffer
drain(a) ==
  LET newlineIndex == indexOf(a.messageBuffer, LF) IN
  IF newlineIndex = 0 THEN a
  ELSE
    LET line == SubSeq(a.messageBuffer, 1, newlineIndex - 1)
        rest == SubSeq(a.messageBuffer, newlineIndex + 1, Len(a.messageBuffer))
    IN IF trim(line) # <<>> /\ parse(line) # SyntaxError
       THEN drain([a EXCEPT !.messageBuffer = rest, !.messages = Append(@, parse(line))])
       ELSE drain([a EXCEPT !.messageBuffer = rest])

\* handleData(chunk)
handleData(a, chunk) ==
  drain([a EXCEPT !.messageBuffer = @ \o toString(chunk)])

\* the lines a client may write: a JSON number, a text that is not JSON, an
\* empty line, a line of white space, and a JSON string holding a two-byte
\* character
LineInputs ==
  {<<"1">>, <<"x">>, <<>>, <<SPACE>>, <<QUOTE, LEAD, CONT, QUOTE>>}

\* what may follow the last newline: nothing, or the start of a line
TailInputs == {<<>>, <<"1">>, <<QUOTE, LEAD>>}

MaxLines == 2
MaxCuts == 2

RECURSIVE Join(_)
\* the bytes of the lines, each followed by a newline
Join(lines) ==
  IF lines = <<>> THEN <<>> ELSE Head(lines) \o <<LF>> \o Join(Tail(lines))

\* the byte streams stdin may carry
StreamInputs ==
  {Join(lines) \o tail :
     lines \in UNION {[1..n -> LineInputs] : n \in 0..MaxLines}, tail \in TailInputs}

RECURSIVE Chunks(_, _, _)
\* the chunks of stream from byte from on, cut after the positions in cuts
Chunks(stream, cuts, from) ==
  IF from > Len(stream) THEN <<>>
  ELSE LET later == {c \in cuts : c >= from}
           to == IF later = {} THEN Len(stream)
                 ELSE CHOOSE c \in later : \A d \in later : c <= d
       IN <<SubSeq(stream, from, to)>> \o Chunks(stream, cuts, to + 1)

\* the ways stdin may deliver a stream: in one piece or cut at up to MaxCuts
\* places
ChunkInputs ==
  UNION {{Chunks(stream, cuts, 1) :
            cuts \in {c \in SUBSET (1..(Len(stream) - 1)) : Cardinality(c) <= MaxCuts}} :
         stream \in StreamInputs}

InitFraming ==
  /\ clock = 0
  /\ players = EmptyMap
  /\ sessions = EmptyMap
  /\ rooms = initialRooms
  /\ transportSend = FALSE
  /\ clientCapabilities = [sampling |-> FALSE]
  /\ samplingHandler = "none"
  /\ timers = <<>>
  /\ reqs = <<>>
  /\ sampling = <<>>
  /\ prompts = RegisteredPrompts
  /\ adapter \in {[NoInput EXCEPT !.input = chunks] : chunks \in ChunkInputs}
  /\ out = <<>>
  /\ events = <<>>
  /\ last = [op |-> "init"]
  /\ alive = TRUE

\* process.stdin 'data': the next chunk arrives and handleData runs
OnData ==
  /\ alive
  /\ adapter.input # <<>>
  /\ adapter' = [handleData(adapter, Head(adapter.input)) EXCEPT
                   !.input = Tail(@), !.read = @ \o Head(adapter.input)]
  /\ last' = [op |-> "data", chunk |-> Head(adapter.input)]
  /\ UNCHANGED <<clock, players, sessions, rooms, transportSend, clientCapabilities,
                 samplingHandler, timers, reqs, sampling, prompts, out, events, alive>>

NextFraming ==
  \/ OnData

SpecFraming == InitFraming /\ [][NextFraming]_vars

RECURSIVE CompleteLines(_)
\* the newline-terminated lines of text, in order
CompleteLines(text) ==
  IF indexOf(text, LF) = 0 THEN <<>>
  ELSE <<SubSeq(text, 1, indexOf(text, LF) - 1)>>
         \o CompleteLines(SubSeq(text, indexOf(text, LF) + 1, Len(text)))

RECURSIVE TrailingLine(_)
\* what follows the last newline of text
TrailingLine(text) ==
  IF indexOf(text, LF) = 0 THEN text
  ELSE TrailingLine(SubSeq(text, indexOf(text, LF) + 1, Len(text)))

\* the line is not blank and is JSON
IsJsonLine(line) == trim(line) # <<>> /\ parse(line) # SyntaxError

\* the JSON values of the lines that are JSON, in order
ValuesOf(lines) ==
  [k \in 1..Len(SelectSeq(lines, IsJsonLine)) |-> parse(SelectSeq(lines, IsJsonLine)[k])]

\* the text of the bytes read so far
TextRead == toString(adapter.read)

\* C40: whatever the split into chunks, the messages emitted so far are the
\* JSON values of the complete lines read so far, once each and in order, blank
\* lines and lines that are not JSON left out, and the buffer holds the line
\* that is not complete yet
C40_FramingIgnoresChunking ==
  /\ adapter.messages = ValuesOf(CompleteLines(TextRead))
  /\ adapter.messageBuffer = TrailingLine(TextRead)

\* the same, for the streams of one-byte characters
AsciiFramingIgnoresChunking ==
  (\A k \in 1..Len(adapter.input) : \A b \in 1..Len(adapter.input[k]) :
     adapter.input[k][b] \notin {LEAD, CONT})
  /\ (\A b \in 1..Len(adapter.read) : adapter.read[b] \notin {LEAD, CONT})
    => C40_FramingIgnoresChunking

====
